---- MODULE Spec2Model ----
(***************************************************************************)
(* Session relay (server), Connection Manager and Peer Negotiator          *)
(* (client hooks) of SentientWitness, as state machines.                   *)
(*                                                                         *)
(* Every handler of the source is one action; createOffer and acceptOffer  *)
(* are two, split at their awaits.  The handlers of the React hooks read   *)
(* the hook's state at its current value.  A handler's sends are collected *)
(* in `sent` (relay) or `pnOut` (negotiator); `last`, `cmLast` and         *)
(* `pnLast` record which handler ran last and with which input.            *)
(***************************************************************************)
EXTENDS Integers, Sequences, FiniteSets, TLC

VARIABLES
    clients,    \* relay: Map clientId -> Client (part_010:271)
    sessions,   \* relay: Map sessionId -> Set of clientId (part_010:272)
    nextId,     \* relay: how many connection identities uuidv4() has handed out
    sent,       \* relay: per connection, the messages the last handler sent to it
    last,       \* relay: the handler that ran last, with its input
    left,       \* history: <<c, s>> once leave(c) ran with c in sessions[s], until c joins s
    cm,         \* connection manager: status, clientId, lastMessage, reconnectAttempt,
                \*   socketRef, reconnectTimeoutRef (use-websocket-connection.ts:52-59)
    sockets,    \* connection manager: the WebSockets it created that have not closed yet
    timers,     \* connection manager: the reconnect timeouts that are pending
    nextSocket, \* connection manager: how many WebSockets it has created, plus one
    nextTimer,  \* connection manager: how many timeouts it has set, plus one
    cmLast,     \* connection manager: the call or callback that ran last, with its result
    closes,     \* history: unclean closes in a row since the last successful open, with no
                \*   disconnect(), reconnect() or clean close in between; -1 outside such a run
    quiet,      \* history: after disconnect() and until the caller's next connect() or
                \*   reconnect(), the value nextSocket had at that disconnect(); else Null
    pn,         \* peer negotiators by local identity: status, peerId, peerName, isInitiator,
                \*   sessionId, the RTCPeerConnection and data channel they hold, the status
                \*   of their wsConnection, the async call suspended at its await
    pnOut,      \* peer negotiators: what the last step handed to wsConnection.sendMessage
                \*   and was transmitted
    pnLast,     \* peer negotiators: the call or callback that ran last
    wire,       \* messages in flight from each negotiator's socket to the relay
    inbox,      \* messages in flight from the relay to each negotiator's socket
    chatLog     \* chats: per connection the chats in flight to the relay and how many
                \*   it has sent, the chats in the order the relay handled them, and per
                \*   connection the chat events in the order its socket was handed them

relayVars == <<clients, sessions, nextId, sent, last>>

cmVars == <<cm, sockets, timers, nextSocket, nextTimer, cmLast>>

pnVars == <<pn, pnOut, pnLast>>

flightVars == <<wire, inbox, chatLog>>

nonPNVars == <<relayVars, left, cmVars, closes, quiet, flightVars>>

clientVars == <<cmVars, closes, quiet, pnVars, flightVars>>

nonRelayVars == <<left, clientVars>>

vars == <<relayVars, left, cmVars, closes, quiet, pnVars, flightVars>>

-----------------------------------------------------------------------------
(* Bounds and input sets *)

MaxConns == 2

Undefined == "undefined"

ConnIds == {"c" \o ToString(i) : i \in 1..MaxConns}
SessionIds == {"s1", "s2"}

\* what a join or identify message may carry as userId / displayName / userType
Profiles ==
    { [userId |-> Undefined, displayName |-> Undefined, userType |-> Undefined],
      [userId |-> "u1", displayName |-> "Ann", userType |-> "ai"] }

MessageTypes == {Undefined, "ai"}
SignalingTypes == {"offer", "answer", "ice-candidate", "peer-disconnect"}
\* the relay tells an offer from the other kinds only
RelaySignalingTypes == {"offer", "answer"}

\* JavaScript's a || b on the values used here
OrElse(a, b) == IF a = Undefined THEN b ELSE a

\* message.f, undefined when the object has no such property
Field(m, f) == IF f \in DOMAIN m THEN m[f] ELSE Undefined

NoSent == [c \in ConnIds |-> <<>>]

-----------------------------------------------------------------------------
(* Relay helpers *)

\* a Client as wss.on('connection') builds it; ws is the socket's readyState, and
\* peerConnections, a Set created on first use, is the empty set until then
Client(id) ==
    [id |-> id, ws |-> "OPEN", sessionId |-> Undefined, userId |-> Undefined,
     displayName |-> Undefined, userType |-> Undefined, peerConnections |-> {}]


\* sendToClient: a message goes out only to a registered client whose socket is OPEN
sendToClient(cl, out, clientId, data) ==
    IF clientId \in DOMAIN cl /\ cl[clientId].ws = "OPEN"
    THEN [out EXCEPT ![clientId] = Append(@, data)]
    ELSE out


\* broadcastToSession: every member of the session's set not in the exclusion list
broadcastToSession(cl, ses, out, sessionId, data, excludeClientIds) ==
    IF sessionId \notin DOMAIN ses THEN out
    ELSE [c \in ConnIds |->
            IF c \in ses[sessionId] /\ c \notin excludeClientIds
            THEN sendToClient(cl, out, c, data)[c]
            ELSE out[c]]

\* Map.delete / Map.set on a TLA+ function
MapDelete(m, k) == [x \in DOMAIN m \ {k} |-> m[x]]
MapSet(m, k, v) == [x \in DOMAIN m \cup {k} |-> IF x = k THEN v ELSE m[x]]

JoinSessionIds == SessionIds

-----------------------------------------------------------------------------
(* Relay handlers *)

RelayInit ==
    /\ clients = [c \in {} |-> Client(c)]
    /\ sessions = [s \in {} |-> {}]
    /\ nextId = 1
    /\ sent = NoSent
    /\ last = [op |-> "init", c |-> Undefined, msg |-> [type |-> "init"]]

\* wss.on('connection'): a fresh identity, registered with no session, told to the client
onConnection ==
    /\ nextId <= MaxConns
    /\ LET clientId == "c" \o ToString(nextId)
           cl == MapSet(clients, clientId, Client(clientId))
       IN /\ clients' = cl
          /\ sent' = sendToClient(cl, NoSent, clientId,
                                  [type |-> "connected", clientId |-> clientId])
          /\ last' = [op |-> "connection", c |-> clientId, msg |-> [type |-> "connection"]]
    /\ nextId' = nextId + 1
    /\ UNCHANGED sessions

\* the ws library marks a socket CLOSING before it emits 'close'
socketClosing(clientId) ==
    /\ clientId \in DOMAIN clients
    /\ clients[clientId].ws = "OPEN"
    /\ clients' = [clients EXCEPT ![clientId].ws = "CLOSING"]
    /\ sent' = NoSent
    /\ last' = [op |-> "closing", c |-> clientId, msg |-> [type |-> "closing"]]
    /\ UNCHANGED <<sessions, nextId>>

\* handleJoinSession that leaves nobody out of its broadcast: a mutant
handleJoinSessionNotifyingAll(clientId, message) ==
    /\ clientId \in DOMAIN clients
    /\ clients[clientId].ws = "OPEN"
    /\ LET sessionId == message.sessionId
           ses1 == IF sessionId \in DOMAIN sessions THEN sessions
                   ELSE MapSet(sessions, sessionId, {})
           ses2 == MapSet(ses1, sessionId, ses1[sessionId] \cup {clientId})
           cl == [clients EXCEPT ![clientId].sessionId = sessionId,
                                 ![clientId].userId = OrElse(message.userId, clientId),
                                 ![clientId].displayName = OrElse(message.displayName, "Anonymous"),
                                 ![clientId].userType = OrElse(message.userType, "human")]
           out1 == sendToClient(cl, NoSent, clientId,
                      [type |-> "joined", sessionId |-> sessionId,
                       userId |-> cl[clientId].userId,
                       displayName |-> cl[clientId].displayName])
           out2 == broadcastToSession(cl, ses2, out1, sessionId,
                      [type |-> "user_joined", userId |-> cl[clientId].userId,
                       displayName |-> cl[clientId].displayName,
                       userType |-> cl[clientId].userType], {})
       IN /\ clients' = cl
          /\ sessions' = ses2
          /\ sent' = out2
          /\ last' = [op |-> "join", c |-> clientId, msg |-> message]
    /\ UNCHANGED nextId

\* handleJoinSession: create the session if absent, add the client, record its
\* identity, acknowledge, tell the other members
handleJoinSession(clientId, message) ==
    /\ clientId \in DOMAIN clients
    /\ clients[clientId].ws = "OPEN"
    /\ LET sessionId == message.sessionId
           ses1 == IF sessionId \in DOMAIN sessions THEN sessions
                   ELSE MapSet(sessions, sessionId, {})
           ses2 == MapSet(ses1, sessionId, ses1[sessionId] \cup {clientId})
           cl == [clients EXCEPT ![clientId].sessionId = sessionId,
                                 ![clientId].userId = OrElse(message.userId, clientId),
                                 ![clientId].displayName = OrElse(message.displayName, "Anonymous"),
                                 ![clientId].userType = OrElse(message.userType, "human")]
           out1 == sendToClient(cl, NoSent, clientId,
                      [type |-> "joined", sessionId |-> sessionId,
                       userId |-> cl[clientId].userId,
                       displayName |-> cl[clientId].displayName])
           out2 == broadcastToSession(cl, ses2, out1, sessionId,
                      [type |-> "user_joined", userId |-> cl[clientId].userId,
                       displayName |-> cl[clientId].displayName,
                       userType |-> cl[clientId].userType], {clientId})
       IN /\ clients' = cl
          /\ sessions' = ses2
          /\ sent' = out2
          /\ last' = [op |-> "join", c |-> clientId, msg |-> message]
    /\ UNCHANGED nextId

\* handleLeaveSession that keeps a session whose last member left: a mutant
handleLeaveSessionKeepingEmpty(clientId) ==
    /\ clientId \in DOMAIN clients
    /\ clients[clientId].ws = "OPEN"
    /\ LET sessionId == clients[clientId].sessionId
       IN IF sessionId = Undefined
          THEN /\ sent' = NoSent
               /\ UNCHANGED <<clients, sessions>>
          ELSE IF sessionId \notin DOMAIN sessions
          THEN /\ sent' = NoSent
               /\ clients' = [clients EXCEPT ![clientId].sessionId = Undefined]
               /\ UNCHANGED sessions
          ELSE LET sessionClients == sessions[sessionId] \ {clientId}
                   ses1 == MapSet(sessions, sessionId, sessionClients)
               IN /\ sent' = broadcastToSession(clients, ses1, NoSent, sessionId,
                                [type |-> "user_left",
                                 userId |-> clients[clientId].userId,
                                 displayName |-> clients[clientId].displayName], {})
                  /\ sessions' = ses1
                  /\ clients' = [clients EXCEPT ![clientId].sessionId = Undefined]
    /\ last' = [op |-> "leave", c |-> clientId, msg |-> [type |-> "leave"]]
    /\ UNCHANGED nextId

\* the body of handleLeaveSession as a function of the two maps: nothing without a
\* session; else remove the client from the session's set, tell the remaining
\* members, drop the empty session, clear the field
LeaveSession(cl, ses, clientId) ==
    LET sessionId == cl[clientId].sessionId
    IN IF sessionId = Undefined
       THEN [clients |-> cl, sessions |-> ses, sent |-> NoSent]
       ELSE IF sessionId \notin DOMAIN ses
       THEN [clients |-> [cl EXCEPT ![clientId].sessionId = Undefined],
             sessions |-> ses, sent |-> NoSent]
       ELSE LET sessionClients == ses[sessionId] \ {clientId}
                ses1 == MapSet(ses, sessionId, sessionClients)
            IN [clients |-> [cl EXCEPT ![clientId].sessionId = Undefined],
                sessions |-> IF sessionClients = {} THEN MapDelete(ses1, sessionId)
                             ELSE ses1,
                sent |-> broadcastToSession(cl, ses1, NoSent, sessionId,
                            [type |-> "user_left",
                             userId |-> cl[clientId].userId,
                             displayName |-> cl[clientId].displayName], {})]

\* handleLeaveSession, run for a 'leave' message of a registered client
handleLeaveSession(clientId) ==
    /\ clientId \in DOMAIN clients
    /\ clients[clientId].ws = "OPEN"
    /\ LET r == LeaveSession(clients, sessions, clientId)
       IN /\ clients' = r.clients
          /\ sessions' = r.sessions
          /\ sent' = r.sent
    /\ last' = [op |-> "leave", c |-> clientId, msg |-> [type |-> "leave"]]
    /\ UNCHANGED nextId

\* handleChatMessage without its session check: a mutant
handleChatMessageUnchecked(clientId, message) ==
    /\ clientId \in DOMAIN clients
    /\ clients[clientId].ws = "OPEN"
    /\ sent' = broadcastToSession(clients, sessions, NoSent, clients[clientId].sessionId,
                   [type |-> "chat", userId |-> clients[clientId].userId,
                    displayName |-> clients[clientId].displayName,
                    content |-> message.content,
                    messageType |-> OrElse(message.messageType, "human"),
                    timestamp |-> "now"], {})
    /\ last' = [op |-> "chat", c |-> clientId, msg |-> message]
    /\ UNCHANGED <<clients, sessions, nextId>>

\* handleChatMessage that leaves the sender out of the broadcast: a mutant
handleChatMessageExcludingSender(clientId, message) ==
    /\ clientId \in DOMAIN clients
    /\ clients[clientId].ws = "OPEN"
    /\ IF clients[clientId].sessionId = Undefined
       THEN sent' = sendToClient(clients, NoSent, clientId,
                       [type |-> "error",
                        message |-> "You must join a session before sending messages"])
       ELSE sent' = broadcastToSession(clients, sessions, NoSent, clients[clientId].sessionId,
                       [type |-> "chat", userId |-> clients[clientId].userId,
                        displayName |-> clients[clientId].displayName,
                        content |-> message.content,
                        messageType |-> OrElse(message.messageType, "human"),
                        timestamp |-> "now"], {clientId})
    /\ last' = [op |-> "chat", c |-> clientId, msg |-> message]
    /\ UNCHANGED <<clients, sessions, nextId>>

\* handleChatMessage: an error without a session, else a chat event to every member
\* of the sender's session, the sender included
handleChatMessage(clientId, message) ==
    /\ clientId \in DOMAIN clients
    /\ clients[clientId].ws = "OPEN"
    /\ IF clients[clientId].sessionId = Undefined
       THEN sent' = sendToClient(clients, NoSent, clientId,
                       [type |-> "error",
                        message |-> "You must join a session before sending messages"])
       ELSE sent' = broadcastToSession(clients, sessions, NoSent, clients[clientId].sessionId,
                       [type |-> "chat", userId |-> clients[clientId].userId,
                        displayName |-> clients[clientId].displayName,
                        content |-> message.content,
                        messageType |-> OrElse(message.messageType, "human"),
                        timestamp |-> "now"], {})
    /\ last' = [op |-> "chat", c |-> clientId, msg |-> message]
    /\ UNCHANGED <<clients, sessions, nextId>>

\* handleIdentify that leaves nobody out of its broadcast: a mutant
handleIdentifyNotifyingAll(clientId, message) ==
    /\ clientId \in DOMAIN clients
    /\ clients[clientId].ws = "OPEN"
    /\ LET cl == [clients EXCEPT
                    ![clientId].userId = OrElse(message.userId, @),
                    ![clientId].displayName = OrElse(message.displayName, @),
                    ![clientId].userType = OrElse(message.userType, @)]
           out1 == sendToClient(cl, NoSent, clientId,
                      [type |-> "identified", userId |-> cl[clientId].userId,
                       displayName |-> cl[clientId].displayName,
                       userType |-> cl[clientId].userType])
       IN /\ clients' = cl
          /\ sent' = IF cl[clientId].sessionId # Undefined
                     THEN broadcastToSession(cl, sessions, out1, cl[clientId].sessionId,
                             [type |-> "user_updated", userId |-> cl[clientId].userId,
                              displayName |-> cl[clientId].displayName,
                              userType |-> cl[clientId].userType], {})
                     ELSE out1
    /\ last' = [op |-> "identify", c |-> clientId, msg |-> message]
    /\ UNCHANGED <<sessions, nextId>>

\* handleIdentify: overwrite the fields the message carries, acknowledge, and tell
\* the other members of the client's session
handleIdentify(clientId, message) ==
    /\ clientId \in DOMAIN clients
    /\ clients[clientId].ws = "OPEN"
    /\ LET cl == [clients EXCEPT
                    ![clientId].userId = OrElse(message.userId, @),
                    ![clientId].displayName = OrElse(message.displayName, @),
                    ![clientId].userType = OrElse(message.userType, @)]
           out1 == sendToClient(cl, NoSent, clientId,
                      [type |-> "identified", userId |-> cl[clientId].userId,
                       displayName |-> cl[clientId].displayName,
                       userType |-> cl[clientId].userType])
       IN /\ clients' = cl
          /\ sent' = IF cl[clientId].sessionId # Undefined
                     THEN broadcastToSession(cl, sessions, out1, cl[clientId].sessionId,
                             [type |-> "user_updated", userId |-> cl[clientId].userId,
                              displayName |-> cl[clientId].displayName,
                              userType |-> cl[clientId].userType], {clientId})
                     ELSE out1
    /\ last' = [op |-> "identify", c |-> clientId, msg |-> message]
    /\ UNCHANGED <<sessions, nextId>>

\* handleSignalingMessage that broadcasts the envelope to the whole session instead of
\* sending it to the target: a mutant
handleSignalingMessageBroadcast(clientId, message) ==
    /\ clientId \in DOMAIN clients
    /\ clients[clientId].ws = "OPEN"
    /\ LET client == clients[clientId]
           targetId == Field(message, "targetId")
           sessionId == Field(message, "sessionId")
       IN IF client.sessionId = Undefined
          THEN /\ sent' = sendToClient(clients, NoSent, clientId,
                    [type |-> "error",
                     message |-> "You must join a session before sending signaling messages"])
               /\ UNCHANGED clients
          ELSE IF client.sessionId # sessionId
          THEN /\ sent' = sendToClient(clients, NoSent, clientId,
                    [type |-> "error",
                     message |-> "You can only send signaling messages for your current session"])
               /\ UNCHANGED clients
          ELSE IF targetId \notin DOMAIN clients \/ clients[targetId].sessionId # sessionId
          THEN /\ sent' = sendToClient(clients, NoSent, clientId,
                    [type |-> "error", message |-> "Target client not found in session"])
               /\ UNCHANGED clients
          ELSE LET pcs == client.peerConnections
                   cl == [clients EXCEPT ![clientId].peerConnections =
                             IF Field(message, "signalingType") = "offer"
                             THEN pcs \cup {targetId} ELSE pcs]
                   forwardedMessage ==
                       [f \in DOMAIN message \cup {"senderName", "userType"} |->
                           IF f = "senderName" THEN client.displayName
                           ELSE IF f = "userType" THEN client.userType
                           ELSE message[f]]
               IN /\ clients' = cl
                  /\ sent' = broadcastToSession(cl, sessions, NoSent, sessionId,
                                                forwardedMessage, {})
    /\ last' = [op |-> "signaling", c |-> clientId, msg |-> message]
    /\ UNCHANGED <<sessions, nextId>>

\* handleSignalingMessage that does not look at the target's session: a mutant
handleSignalingMessageAnyTarget(clientId, message) ==
    /\ clientId \in DOMAIN clients
    /\ clients[clientId].ws = "OPEN"
    /\ LET client == clients[clientId]
           targetId == Field(message, "targetId")
           sessionId == Field(message, "sessionId")
       IN IF client.sessionId = Undefined
          THEN /\ sent' = sendToClient(clients, NoSent, clientId,
                    [type |-> "error",
                     message |-> "You must join a session before sending signaling messages"])
               /\ UNCHANGED clients
          ELSE IF client.sessionId # sessionId
          THEN /\ sent' = sendToClient(clients, NoSent, clientId,
                    [type |-> "error",
                     message |-> "You can only send signaling messages for your current session"])
               /\ UNCHANGED clients
          ELSE IF targetId \notin DOMAIN clients
          THEN /\ sent' = sendToClient(clients, NoSent, clientId,
                    [type |-> "error", message |-> "Target client not found in session"])
               /\ UNCHANGED clients
          ELSE LET pcs == client.peerConnections
                   cl == [clients EXCEPT ![clientId].peerConnections =
                             IF Field(message, "signalingType") = "offer"
                             THEN pcs \cup {targetId} ELSE pcs]
                   forwardedMessage ==
                       [f \in DOMAIN message \cup {"senderName", "userType"} |->
                           IF f = "senderName" THEN client.displayName
                           ELSE IF f = "userType" THEN client.userType
                           ELSE message[f]]
               IN /\ clients' = cl
                  /\ sent' = sendToClient(cl, NoSent, targetId, forwardedMessage)
    /\ last' = [op |-> "signaling", c |-> clientId, msg |-> message]
    /\ UNCHANGED <<sessions, nextId>>

\* handleSignalingMessage: the sender must be in a session, the envelope must name
\* that session, the target must be registered and in it; then the envelope, with the
\* sender's name and kind attached, goes to the target alone
handleSignalingMessage(clientId, message) ==
    /\ clientId \in DOMAIN clients
    /\ clients[clientId].ws = "OPEN"
    /\ LET client == clients[clientId]
           targetId == Field(message, "targetId")
           sessionId == Field(message, "sessionId")
       IN IF client.sessionId = Undefined
          THEN /\ sent' = sendToClient(clients, NoSent, clientId,
                    [type |-> "error",
                     message |-> "You must join a session before sending signaling messages"])
               /\ UNCHANGED clients
          ELSE IF client.sessionId # sessionId
          THEN /\ sent' = sendToClient(clients, NoSent, clientId,
                    [type |-> "error",
                     message |-> "You can only send signaling messages for your current session"])
               /\ UNCHANGED clients
          ELSE IF targetId \notin DOMAIN clients \/ clients[targetId].sessionId # sessionId
          THEN /\ sent' = sendToClient(clients, NoSent, clientId,
                    [type |-> "error", message |-> "Target client not found in session"])
               /\ UNCHANGED clients
          ELSE LET pcs == client.peerConnections
                   cl == [clients EXCEPT ![clientId].peerConnections =
                             IF Field(message, "signalingType") = "offer"
                             THEN pcs \cup {targetId} ELSE pcs]
                   forwardedMessage ==
                       [f \in DOMAIN message \cup {"senderName", "userType"} |->
                           IF f = "senderName" THEN client.displayName
                           ELSE IF f = "userType" THEN client.userType
                           ELSE message[f]]
               IN /\ clients' = cl
                  /\ sent' = sendToClient(cl, NoSent, targetId, forwardedMessage)
    /\ last' = [op |-> "signaling", c |-> clientId, msg |-> message]
    /\ UNCHANGED <<sessions, nextId>>

\* ws.on('message') that answers a bad message and then closes the socket: a mutant
onInvalidMessageClosing(clientId, reason) ==
    /\ clientId \in DOMAIN clients
    /\ clients[clientId].ws = "OPEN"
    /\ sent' = sendToClient(clients, NoSent, clientId, [type |-> "error", message |-> reason])
    /\ clients' = [clients EXCEPT ![clientId].ws = "CLOSING"]
    /\ last' = [op |-> "invalid", c |-> clientId, msg |-> [type |-> reason]]
    /\ UNCHANGED <<sessions, nextId>>

\* ws.on('message'), the cases that reach no handler: a payload JSON.parse rejects
\* ("Invalid message format") and a type outside the switch ("Invalid message type")
onInvalidMessage(clientId, reason) ==
    /\ clientId \in DOMAIN clients
    /\ clients[clientId].ws = "OPEN"
    /\ sent' = sendToClient(clients, NoSent, clientId, [type |-> "error", message |-> reason])
    /\ last' = [op |-> "invalid", c |-> clientId, msg |-> [type |-> reason]]
    /\ UNCHANGED <<clients, sessions, nextId>>

\* ws.on('close') that tells nobody: a mutant
onCloseSilently(clientId) ==
    /\ clientId \in DOMAIN clients
    /\ LET sessionId == clients[clientId].sessionId
       IN IF sessionId # Undefined /\ sessionId \in DOMAIN sessions
          THEN LET sessionClients == sessions[sessionId] \ {clientId}
                   ses1 == MapSet(sessions, sessionId, sessionClients)
               IN /\ sent' = NoSent
                  /\ sessions' = IF sessionClients = {} THEN MapDelete(ses1, sessionId)
                                 ELSE ses1
          ELSE /\ sent' = NoSent
               /\ UNCHANGED sessions
    /\ clients' = MapDelete(clients, clientId)
    /\ last' = [op |-> "close", c |-> clientId, msg |-> [type |-> "close"]]
    /\ UNCHANGED nextId

\* ws.on('close'): as a leave when the client has a session, then the client is deleted
onClose(clientId) ==
    /\ clientId \in DOMAIN clients
    /\ LET sessionId == clients[clientId].sessionId
       IN IF sessionId # Undefined /\ sessionId \in DOMAIN sessions
          THEN LET sessionClients == sessions[sessionId] \ {clientId}
                   ses1 == MapSet(sessions, sessionId, sessionClients)
               IN /\ sent' = broadcastToSession(clients, ses1, NoSent, sessionId,
                                [type |-> "user_left",
                                 userId |-> clients[clientId].userId,
                                 displayName |-> clients[clientId].displayName], {})
                  /\ sessions' = IF sessionClients = {} THEN MapDelete(ses1, sessionId)
                                 ELSE ses1
          ELSE /\ sent' = NoSent
               /\ UNCHANGED sessions
    /\ clients' = MapDelete(clients, clientId)
    /\ last' = [op |-> "close", c |-> clientId, msg |-> [type |-> "close"]]
    /\ UNCHANGED nextId

JoinMessages ==
    { [type |-> "join", sessionId |-> s, userId |-> p.userId,
       displayName |-> p.displayName, userType |-> p.userType] :
         s \in JoinSessionIds, p \in Profiles }

\* join messages as a client may send them, the sessionId possibly missing
AnyJoinMessages ==
    { [type |-> "join", sessionId |-> s, userId |-> p.userId,
       displayName |-> p.displayName, userType |-> p.userType] :
         s \in JoinSessionIds \cup {Undefined}, p \in Profiles }

IdentifyMessages ==
    { [type |-> "identify", userId |-> p.userId, displayName |-> p.displayName,
       userType |-> p.userType] : p \in Profiles }

ChatMessages ==
    { [type |-> "chat", content |-> "hello", messageType |-> t] : t \in MessageTypes }

\* the envelopes a connection may send: the sender they state is c1 whoever sends
\* them, since the relay never reads it
SignalingMessages ==
    { [type |-> "signaling", signalingType |-> k, senderId |-> "c1", targetId |-> t,
       sessionId |-> s, payload |-> "sdp"] :
         k \in RelaySignalingTypes, t \in ConnIds, s \in SessionIds }

\* the relay's presence and chat traffic: every handler but signaling
RelayNext ==
    \/ onConnection /\ UNCHANGED nonRelayVars
    \/ \E c \in ConnIds : socketClosing(c) /\ UNCHANGED nonRelayVars
    \/ \E c \in ConnIds : onClose(c) /\ UNCHANGED nonRelayVars
    \/ \E c \in ConnIds, m \in JoinMessages :
          handleJoinSession(c, m) /\ UNCHANGED nonRelayVars
    \/ \E c \in ConnIds : handleLeaveSession(c) /\ UNCHANGED nonRelayVars
    \/ \E c \in ConnIds, m \in ChatMessages :
          handleChatMessage(c, m) /\ UNCHANGED nonRelayVars
    \/ \E c \in ConnIds, m \in IdentifyMessages :
          handleIdentify(c, m) /\ UNCHANGED nonRelayVars
    \/ \E c \in ConnIds, r \in {"Invalid message format", "Invalid message type"} :
          onInvalidMessage(c, r) /\ UNCHANGED nonRelayVars

\* the relay's presence and signaling traffic
SignalNext ==
    \/ onConnection /\ UNCHANGED nonRelayVars
    \/ \E c \in ConnIds : socketClosing(c) /\ UNCHANGED nonRelayVars
    \/ \E c \in ConnIds : onClose(c) /\ UNCHANGED nonRelayVars
    \/ \E c \in ConnIds, m \in JoinMessages :
          handleJoinSession(c, m) /\ UNCHANGED nonRelayVars
    \/ \E c \in ConnIds : handleLeaveSession(c) /\ UNCHANGED nonRelayVars
    \/ \E c \in ConnIds, m \in SignalingMessages :
          handleSignalingMessage(c, m) /\ UNCHANGED nonRelayVars

\* the relay's presence traffic when a join may come without a sessionId
JoinNext ==
    \/ onConnection /\ UNCHANGED nonRelayVars
    \/ \E c \in ConnIds : socketClosing(c) /\ UNCHANGED nonRelayVars
    \/ \E c \in ConnIds : onClose(c) /\ UNCHANGED nonRelayVars
    \/ \E c \in ConnIds, m \in AnyJoinMessages :
          handleJoinSession(c, m) /\ UNCHANGED nonRelayVars
    \/ \E c \in ConnIds : handleLeaveSession(c) /\ UNCHANGED nonRelayVars
    \/ \E c \in ConnIds, m \in ChatMessages :
          handleChatMessage(c, m) /\ UNCHANGED nonRelayVars

\* the relay's presence and chat traffic with the history of leaves kept in `left`
LeftNext ==
    \/ onConnection /\ UNCHANGED nonRelayVars
    \/ \E c \in ConnIds : socketClosing(c) /\ UNCHANGED nonRelayVars
    \/ \E c \in ConnIds :
          onClose(c) /\ left' = {p \in left : p[1] # c} /\ UNCHANGED clientVars
    \/ \E c \in ConnIds, m \in JoinMessages :
          /\ handleJoinSession(c, m)
          /\ left' = left \ {<<c, m.sessionId>>}
          /\ UNCHANGED clientVars
    \/ \E c \in ConnIds :
          /\ handleLeaveSession(c)
          /\ left' = left \cup {<<c, s>> : s \in {t \in DOMAIN sessions : c \in sessions[t]}}
          /\ UNCHANGED clientVars
    \/ \E c \in ConnIds, m \in ChatMessages :
          handleChatMessage(c, m) /\ UNCHANGED nonRelayVars
    \/ \E c \in ConnIds, m \in IdentifyMessages :
          handleIdentify(c, m) /\ UNCHANGED nonRelayVars

-----------------------------------------------------------------------------
(* Connection Manager: useWebSocketConnection *)

\* options.maxReconnectAttempts as configured here (its default is 5)
maxReconnectAttempts == 2
MaxSockets == 4
MaxTimers == 4

Null == 0

\* what a socket's message event may carry: text JSON.parse rejects, the relay's
\* "connected" message, any other message
InboundData ==
    { [parses |-> FALSE, type |-> "garbage", clientId |-> Undefined],
      [parses |-> TRUE, type |-> "connected", clientId |-> "c1"],
      [parses |-> TRUE, type |-> "chat", clientId |-> Undefined] }

CMInit ==
    /\ cm = [status |-> "disconnected", clientId |-> Undefined, lastMessage |-> Undefined,
             reconnectAttempt |-> 0, socketRef |-> Null, reconnectTimeoutRef |-> Null]
    /\ sockets = [s \in {} |-> [readyState |-> "CONNECTING", requested |-> 0]]
    /\ timers = {}
    /\ nextSocket = 1
    /\ nextTimer = 1
    /\ cmLast = [op |-> "init"]
    /\ closes = -1
    /\ quiet = Null

\* the manager's state as one value, so that reconnect() can run disconnect() then connect()
CMState ==
    [cm |-> cm, sockets |-> sockets, timers |-> timers,
     nextSocket |-> nextSocket, nextTimer |-> nextTimer]

SetCMState(st) ==
    /\ cm' = st.cm
    /\ sockets' = st.sockets
    /\ timers' = st.timers
    /\ nextSocket' = st.nextSocket
    /\ nextTimer' = st.nextTimer

\* WebSocket.close(code): a socket that is OPEN starts the closing handshake with the
\* code asked for (1005 stands for none given); one still CONNECTING fails
CloseSocket(socks, s, code) ==
    IF s \notin DOMAIN socks THEN socks
    ELSE IF socks[s].readyState = "OPEN"
         THEN [socks EXCEPT ![s] = [readyState |-> "CLOSING", requested |-> code]]
    ELSE IF socks[s].readyState = "CONNECTING"
         THEN [socks EXCEPT ![s] = [readyState |-> "CLOSING", requested |-> 0]]
    ELSE socks

\* clearTimeout(id)
ClearTimeout(ts, id) == ts \ {id}


\* connect() without its status check: a mutant
ConnectUnguarded(st) ==
    LET socks1 == IF st.cm.socketRef # Null
                  THEN CloseSocket(st.sockets, st.cm.socketRef, 1005)
                  ELSE st.sockets
        id == st.nextSocket
    IN [st EXCEPT
          !.timers = ClearTimeout(@, st.cm.reconnectTimeoutRef),
          !.cm.reconnectTimeoutRef = Null,
          !.cm.status = "connecting",
          !.sockets = MapSet(socks1, id, [readyState |-> "CONNECTING", requested |-> 0]),
          !.cm.socketRef = id,
          !.nextSocket = id + 1]

\* connect(): nothing while connecting, connected or reconnecting; else close the
\* current socket, clear the referenced timeout, go to connecting with a new socket
Connect(st) ==
    IF st.cm.status \in {"connecting", "connected", "reconnecting"} THEN st
    ELSE LET socks1 == IF st.cm.socketRef # Null
                       THEN CloseSocket(st.sockets, st.cm.socketRef, 1005)
                       ELSE st.sockets
             id == st.nextSocket
         IN [st EXCEPT
               !.timers = ClearTimeout(@, st.cm.reconnectTimeoutRef),
               !.cm.reconnectTimeoutRef = Null,
               !.cm.status = "connecting",
               !.sockets = MapSet(socks1, id, [readyState |-> "CONNECTING", requested |-> 0]),
               !.cm.socketRef = id,
               !.nextSocket = id + 1]


\* disconnect(): clear the referenced timeout, close the current socket with code
\* 1000, go to disconnected, reset the retry counter
Disconnect(st) ==
    [st EXCEPT
       !.timers = ClearTimeout(@, st.cm.reconnectTimeoutRef),
       !.cm.reconnectTimeoutRef = Null,
       !.sockets = IF st.cm.socketRef # Null
                   THEN CloseSocket(@, st.cm.socketRef, 1000) ELSE @,
       !.cm.socketRef = Null,
       !.cm.status = "disconnected",
       !.cm.reconnectAttempt = 0]

\* a connect() that would create a socket needs one of the MaxSockets identities
CanCreateSocket(st) ==
    st.cm.status \in {"connecting", "connected", "reconnecting"} \/ st.nextSocket <= MaxSockets

connect ==
    /\ CanCreateSocket(CMState)
    /\ SetCMState(Connect(CMState))
    /\ cmLast' = [op |-> "connect"]

disconnect ==
    /\ SetCMState(Disconnect(CMState))
    /\ cmLast' = [op |-> "disconnect"]

\* reconnect(): disconnect(), reset the retry counter, connect()
reconnect ==
    /\ nextSocket <= MaxSockets
    /\ SetCMState(Connect([Disconnect(CMState) EXCEPT !.cm.reconnectAttempt = 0]))
    /\ cmLast' = [op |-> "reconnect"]


\* sendMessage(message): transmits and returns true only through a current socket
\* that is OPEN
sendMessage ==
    /\ LET ok == cm.socketRef # Null /\ cm.socketRef \in DOMAIN sockets
                 /\ sockets[cm.socketRef].readyState = "OPEN"
       IN cmLast' = [op |-> "sendMessage", result |-> ok, transmitted |-> ok]
    /\ UNCHANGED <<cm, sockets, timers, nextSocket, nextTimer>>

\* socket.onopen: connected, retry counter reset
onopen(s) ==
    /\ s \in DOMAIN sockets
    /\ sockets[s].readyState = "CONNECTING"
    /\ sockets' = [sockets EXCEPT ![s].readyState = "OPEN"]
    /\ cm' = [cm EXCEPT !.status = "connected", !.reconnectAttempt = 0]
    /\ cmLast' = [op |-> "onopen", socket |-> s]
    /\ UNCHANGED <<timers, nextSocket, nextTimer>>

\* socket.onmessage: a payload that does not parse is dropped; a parsed message is
\* recorded as lastMessage, and a "connected" message sets clientId
onmessage(s, data) ==
    /\ s \in DOMAIN sockets
    /\ sockets[s].readyState = "OPEN"
    /\ cm' = IF ~data.parses THEN cm
             ELSE [cm EXCEPT
                     !.clientId = IF data.type = "connected" /\ data.clientId # Undefined
                                  THEN data.clientId ELSE @,
                     !.lastMessage = data.type]
    /\ cmLast' = [op |-> "onmessage", socket |-> s, delivered |-> data.parses]
    /\ UNCHANGED <<sockets, timers, nextSocket, nextTimer>>

\* socket.onerror: the socket has failed (its close event follows); status error
onerror(s) ==
    /\ s \in DOMAIN sockets
    /\ sockets[s].readyState \in {"CONNECTING", "OPEN"}
    /\ sockets' = [sockets EXCEPT ![s] = [readyState |-> "CLOSING", requested |-> 0]]
    /\ cm' = [cm EXCEPT !.status = "error"]
    /\ cmLast' = [op |-> "onerror", socket |-> s]
    /\ UNCHANGED <<timers, nextSocket, nextTimer>>

\* the codes a socket's close event may carry: the one asked for when the closing
\* handshake completes, 1000 when the server closes an open socket, 1006 when the
\* connection is lost or never opened
CloseCodes(s) ==
    IF sockets[s].readyState = "OPEN" THEN {1000, 1006}
    ELSE IF sockets[s].readyState = "CLOSING" /\ sockets[s].requested # 0
         THEN {sockets[s].requested, 1006}
    ELSE {1006}

\* socket.onclose that retries one time more than the maximum: a mutant
oncloseOffByOne(s, code) ==
    /\ s \in DOMAIN sockets
    /\ sockets[s].readyState # "CONNECTING"
    /\ code \in CloseCodes(s)
    /\ sockets' = MapDelete(sockets, s)
    /\ IF code = 1000
       THEN /\ cm' = [cm EXCEPT !.socketRef = Null, !.status = "disconnected"]
            /\ UNCHANGED <<timers, nextTimer>>
       ELSE IF cm.reconnectAttempt <= maxReconnectAttempts
       THEN /\ nextTimer <= MaxTimers
            /\ cm' = [cm EXCEPT !.socketRef = Null, !.status = "reconnecting",
                                !.reconnectTimeoutRef = nextTimer]
            /\ timers' = timers \cup {nextTimer}
            /\ nextTimer' = nextTimer + 1
       ELSE /\ cm' = [cm EXCEPT !.socketRef = Null, !.status = "error"]
            /\ UNCHANGED <<timers, nextTimer>>
    /\ cmLast' = [op |-> "onclose", socket |-> s, code |-> code,
                  attempt |-> cm.reconnectAttempt,
                  timer |-> IF nextTimer' = nextTimer THEN Null ELSE nextTimer]
    /\ UNCHANGED nextSocket

\* socket.onclose: the reference is cleared; code 1000 gives disconnected; any other
\* code gives reconnecting and a timeout while the retry counter is below the
\* maximum, and error otherwise
onclose(s, code) ==
    /\ s \in DOMAIN sockets
    /\ sockets[s].readyState # "CONNECTING"
    /\ code \in CloseCodes(s)
    /\ sockets' = MapDelete(sockets, s)
    /\ IF code = 1000
       THEN /\ cm' = [cm EXCEPT !.socketRef = Null, !.status = "disconnected"]
            /\ UNCHANGED <<timers, nextTimer>>
       ELSE IF cm.reconnectAttempt < maxReconnectAttempts
       THEN /\ nextTimer <= MaxTimers
            /\ cm' = [cm EXCEPT !.socketRef = Null, !.status = "reconnecting",
                                !.reconnectTimeoutRef = nextTimer]
            /\ timers' = timers \cup {nextTimer}
            /\ nextTimer' = nextTimer + 1
       ELSE /\ cm' = [cm EXCEPT !.socketRef = Null, !.status = "error"]
            /\ UNCHANGED <<timers, nextTimer>>
    /\ cmLast' = [op |-> "onclose", socket |-> s, code |-> code,
                  attempt |-> cm.reconnectAttempt,
                  timer |-> IF nextTimer' = nextTimer THEN Null ELSE nextTimer]
    /\ UNCHANGED nextSocket

\* the reconnect timeout's callback: the retry counter grows by one, then connect()
onReconnectTimeout(t) ==
    /\ t \in timers
    /\ LET st == [CMState EXCEPT !.timers = @ \ {t},
                                 !.cm.reconnectAttempt = @ + 1]
       IN /\ CanCreateSocket(st)
          /\ SetCMState(Connect(st))
    /\ cmLast' = [op |-> "timeout", timer |-> t]

SocketIds == 1..MaxSockets
TimerIds == 1..MaxTimers

\* the manager's steps, each with the two histories kept beside it
CMNext ==
    \/ connect /\ quiet' = Null /\ UNCHANGED <<closes, relayVars, left, pnVars, flightVars>>
    \/ disconnect /\ quiet' = nextSocket /\ closes' = -1 /\ UNCHANGED <<relayVars, left, pnVars, flightVars>>
    \/ reconnect /\ quiet' = Null /\ closes' = -1 /\ UNCHANGED <<relayVars, left, pnVars, flightVars>>
    \/ sendMessage /\ UNCHANGED <<closes, quiet, relayVars, left, pnVars, flightVars>>
    \/ \E s \in SocketIds :
          onopen(s) /\ closes' = 0 /\ UNCHANGED <<quiet, relayVars, left, pnVars, flightVars>>
    \/ \E s \in SocketIds, d \in InboundData :
          onmessage(s, d) /\ UNCHANGED <<closes, quiet, relayVars, left, pnVars, flightVars>>
    \/ \E s \in SocketIds :
          onerror(s) /\ UNCHANGED <<closes, quiet, relayVars, left, pnVars, flightVars>>
    \/ \E s \in SocketIds, code \in {1000, 1005, 1006} :
          /\ onclose(s, code)
          /\ closes' = IF code = 1000 \/ closes = -1 THEN -1 ELSE closes + 1
          /\ UNCHANGED <<quiet, relayVars, left, pnVars, flightVars>>
    \/ \E t \in TimerIds :
          onReconnectTimeout(t) /\ UNCHANGED <<closes, quiet, relayVars, left, pnVars, flightVars>>

-----------------------------------------------------------------------------
(* Peer Negotiator: usePeerConnection *)

\* the negotiators, named by the localId each one generates
LocalIds == {"n1", "n2"}

NullId == "null"

Falsy(x) == x \in {Undefined, NullId, ""}

\* peerConnectionRef.current when it is null, and a fresh RTCPeerConnection
NoPc == [signalingState |-> "none", local |-> Undefined, remote |-> Undefined,
         candidates |-> {}]
NewPc == [signalingState |-> "stable", local |-> Undefined, remote |-> Undefined,
          candidates |-> {}]

NoPending == [kind |-> "none", peer |-> NullId, name |-> NullId,
              session |-> NullId, offer |-> Undefined]

PNInit ==
    /\ pn = [n \in LocalIds |->
               [status |-> "disconnected", peerId |-> NullId, peerName |-> NullId,
                isInitiator |-> FALSE, sessionId |-> NullId,
                pc |-> NoPc, dc |-> "none", staleClose |-> FALSE,
                ws |-> "closed", pending |-> NoPending, notified |-> "none"]]
    /\ pnOut = [n \in LocalIds |-> <<>>]
    /\ pnLast = [op |-> "init", n |-> NullId, msg |-> [type |-> "init"], result |-> FALSE]
    /\ wire = [n \in LocalIds |-> <<>>]
    /\ inbox = [n \in LocalIds |-> <<>>]

\* a handler's effect: the negotiator's new state and what it transmitted
Eff(r, out) == [r |-> r, out |-> out]

\* updateStatus(newStatus, connectedPeerId, connectedPeerName)
updateStatus(r, newStatus, connectedPeerId, connectedPeerName) ==
    [r EXCEPT
       !.status = newStatus,
       !.peerId = IF newStatus = "connected"
                  THEN (IF Falsy(connectedPeerId) THEN NullId ELSE connectedPeerId)
                  ELSE IF newStatus = "disconnected" THEN NullId ELSE @,
       !.peerName = IF newStatus = "connected"
                    THEN (IF Falsy(connectedPeerName) THEN NullId ELSE connectedPeerName)
                    ELSE IF newStatus = "disconnected" THEN NullId ELSE @,
       !.notified = newStatus]

\* wsConnection.sendMessage({type: 'signaling', content}): transmitted when the
\* socket is open
wsSend(r, out, content) ==
    IF r.ws = "open" THEN Append(out, [type |-> "signaling", content |-> content]) ELSE out

SignalingContent(signalingType, senderId, targetId, sessionId, payload) ==
    [signalingType |-> signalingType, senderId |-> senderId, targetId |-> targetId,
     sessionId |-> sessionId, payload |-> payload]

\* initPeerConnection: close the connection held, and with it its data channel,
\* whose close event is then due; hold a new connection
initPeerConnection(r) ==
    [r EXCEPT !.pc = NewPc,
              !.dc = IF r.pc # NoPc /\ r.dc \in {"connecting", "open"} THEN "closed" ELSE @,
              !.staleClose = @ \/ (r.pc # NoPc /\ r.dc \in {"connecting", "open"})]

\* setupDataChannel(channel): install the callbacks and hold the channel
setupDataChannel(r) == [r EXCEPT !.dc = "connecting"]


\* closeConnection that keeps the recorded peer: a mutant
closeConnectionKeepingPeer(n, r, out) ==
    Eff([r EXCEPT !.dc = "none", !.pc = NoPc,
                  !.staleClose = @ \/ r.dc \in {"connecting", "open"},
                  !.status = "disconnected", !.notified = "disconnected",
                  !.isInitiator = FALSE, !.sessionId = NullId],
        IF ~Falsy(r.peerId) /\ r.ws = "open"
        THEN wsSend(r, out, SignalingContent("peer-disconnect", n, r.peerId,
                                             IF Falsy(r.sessionId) THEN "" ELSE r.sessionId,
                                             "none"))
        ELSE out)

\* closeConnection that never tells the peer: a mutant
closeConnectionSilently(n, r, out) ==
    Eff([updateStatus([r EXCEPT !.dc = "none", !.pc = NoPc,
                                !.staleClose = @ \/ r.dc \in {"connecting", "open"}],
                      "disconnected", Undefined, Undefined)
           EXCEPT !.isInitiator = FALSE, !.sessionId = NullId],
        out)

\* closeConnection: tell the recorded peer when the socket is open, close and drop
\* the data channel and the peer connection, go to disconnected
closeConnection(n, r, out) ==
    Eff([updateStatus([r EXCEPT !.dc = "none", !.pc = NoPc,
                                !.staleClose = @ \/ r.dc \in {"connecting", "open"}],
                      "disconnected", Undefined, Undefined)
           EXCEPT !.isInitiator = FALSE, !.sessionId = NullId],
        IF ~Falsy(r.peerId) /\ r.ws = "open"
        THEN wsSend(r, out, SignalingContent("peer-disconnect", n, r.peerId,
                                             IF Falsy(r.sessionId) THEN "" ELSE r.sessionId,
                                             "none"))
        ELSE out)

\* createOffer creates the data channel before its first await; acceptOffer does not
setupOrNot(kind, r) == IF kind = "offer" THEN setupDataChannel(r) ELSE r

\* createOffer and acceptOffer that both take the initiator's role: a mutant
asyncStartAsInitiator(r, kind, peer, name, session, offer) ==
    [setupOrNot(kind, initPeerConnection(
        [updateStatus(r, "connecting", Undefined, Undefined)
           EXCEPT !.isInitiator = TRUE, !.sessionId = session]))
       EXCEPT !.pending = [kind |-> kind, peer |-> peer, name |-> name,
                           session |-> session, offer |-> offer]]

\* createOffer and acceptOffer up to their first await
asyncStart(r, kind, peer, name, session, offer) ==
    [setupOrNot(kind, initPeerConnection(
        [updateStatus(r, "connecting", Undefined, Undefined)
           EXCEPT !.isInitiator = (kind = "offer"), !.sessionId = session]))
       EXCEPT !.pending = [kind |-> kind, peer |-> peer, name |-> name,
                           session |-> session, offer |-> offer]]

\* handleAnswer that reports the connection as up once the answer is applied: a mutant
handleAnswerConnected(r, payload) ==
    IF r.pc # NoPc /\ r.pc.signalingState = "have-local-offer"
    THEN updateStatus([r EXCEPT !.pc.remote = payload, !.pc.signalingState = "stable"],
                      "connected", r.peerId, r.peerName)
    ELSE updateStatus(r, "error", Undefined, Undefined)

\* handleAnswer: setRemoteDescription(answer), which the connection accepts only
\* while it has a local offer; a rejection or a missing connection gives error
handleAnswer(r, payload) ==
    IF r.pc # NoPc /\ r.pc.signalingState = "have-local-offer"
    THEN [r EXCEPT !.pc.remote = payload, !.pc.signalingState = "stable"]
    ELSE updateStatus(r, "error", Undefined, Undefined)

\* addIceCandidate whose rejection puts the negotiator into error: a mutant
addIceCandidateFailing(r, payload) ==
    IF r.pc # NoPc /\ r.pc.remote # Undefined
    THEN [r EXCEPT !.pc.candidates = @ \cup {payload}]
    ELSE updateStatus(r, "error", Undefined, Undefined)

\* addIceCandidate: the connection takes a candidate once it has a remote
\* description; a rejection or a missing connection is reported and changes nothing
addIceCandidate(r, payload) ==
    IF r.pc # NoPc /\ r.pc.remote # Undefined
    THEN [r EXCEPT !.pc.candidates = @ \cup {payload}]
    ELSE r

\* handleWebSocketMessage that does not compare targetId with localId: a mutant
handleWebSocketMessageAnyTarget(n, r, message) ==
    IF message.type # "signaling" THEN Eff(r, <<>>)
    ELSE LET c == message.content
         IN CASE c.signalingType = "offer" ->
                   IF ~Falsy(c.senderId) /\ r.status = "disconnected"
                   THEN Eff(asyncStart(r, "answer", c.senderId, "Peer", c.sessionId, c.payload),
                            <<>>)
                   ELSE Eff(r, <<>>)
              [] c.signalingType = "answer" ->
                   IF ~Falsy(c.senderId) /\ r.status = "connecting"
                   THEN Eff(handleAnswer(r, c.payload), <<>>)
                   ELSE Eff(r, <<>>)
              [] c.signalingType = "ice-candidate" ->
                   IF r.pc # NoPc THEN Eff(addIceCandidate(r, c.payload), <<>>)
                   ELSE Eff(r, <<>>)
              [] c.signalingType = "peer-disconnect" ->
                   IF c.senderId = r.peerId THEN closeConnection(n, r, <<>>)
                   ELSE Eff(r, <<>>)
              [] OTHER -> Eff(r, <<>>)

\* handleWebSocketMessage that accepts an offer in any status: a mutant
handleWebSocketMessageAnyStatus(n, r, message) ==
    IF message.type # "signaling" THEN Eff(r, <<>>)
    ELSE LET c == message.content
         IN IF c.targetId # n THEN Eff(r, <<>>)
            ELSE CASE c.signalingType = "offer" ->
                   IF ~Falsy(c.senderId)
                   THEN Eff(asyncStart(r, "answer", c.senderId, "Peer", c.sessionId, c.payload),
                            <<>>)
                   ELSE Eff(r, <<>>)
              [] c.signalingType = "answer" ->
                   IF ~Falsy(c.senderId) /\ r.status = "connecting"
                   THEN Eff(handleAnswer(r, c.payload), <<>>)
                   ELSE Eff(r, <<>>)
              [] c.signalingType = "ice-candidate" ->
                   IF r.pc # NoPc THEN Eff(addIceCandidate(r, c.payload), <<>>)
                   ELSE Eff(r, <<>>)
              [] c.signalingType = "peer-disconnect" ->
                   IF c.senderId = r.peerId THEN closeConnection(n, r, <<>>)
                   ELSE Eff(r, <<>>)
              [] OTHER -> Eff(r, <<>>)

\* handleWebSocketMessage: only signaling messages addressed to localId; an offer
\* is accepted while disconnected, an answer applied while connecting, a candidate
\* added while a peer connection is held, a peer-disconnect from the recorded peer
\* closes the connection
handleWebSocketMessage(n, r, message) ==
    IF message.type # "signaling" THEN Eff(r, <<>>)
    ELSE LET c == message.content
         IN IF c.targetId # n THEN Eff(r, <<>>)
            ELSE CASE c.signalingType = "offer" ->
                   IF ~Falsy(c.senderId) /\ r.status = "disconnected"
                   THEN Eff(asyncStart(r, "answer", c.senderId, "Peer", c.sessionId, c.payload),
                            <<>>)
                   ELSE Eff(r, <<>>)
              [] c.signalingType = "answer" ->
                   IF ~Falsy(c.senderId) /\ r.status = "connecting"
                   THEN Eff(handleAnswer(r, c.payload), <<>>)
                   ELSE Eff(r, <<>>)
              [] c.signalingType = "ice-candidate" ->
                   IF r.pc # NoPc THEN Eff(addIceCandidate(r, c.payload), <<>>)
                   ELSE Eff(r, <<>>)
              [] c.signalingType = "peer-disconnect" ->
                   IF c.senderId = r.peerId THEN closeConnection(n, r, <<>>)
                   ELSE Eff(r, <<>>)
              [] OTHER -> Eff(r, <<>>)

\* whether handling the message would start acceptOffer
StartsAccept(n, message) ==
    /\ message.type = "signaling"
    /\ message.content.targetId = n
    /\ message.content.signalingType = "offer"
    /\ ~Falsy(message.content.senderId)
    /\ pn[n].status = "disconnected"

\* createOffer and acceptOffer are started only while no earlier call of the
\* negotiator is suspended at its await
CanStart(n) == pn[n].pending.kind = "none"

\* a step of negotiator n: its new state, and what it transmitted
PNStep(n, e, op, message, result) ==
    /\ pn' = [pn EXCEPT ![n] = e.r]
    /\ pnOut' = [m \in LocalIds |-> IF m = n THEN e.out ELSE <<>>]
    /\ pnLast' = [op |-> op, n |-> n, msg |-> message, result |-> result]

NoMsg == [type |-> "none"]

\* the 'websocket-message' listener
onWebSocketMessage(n, message) ==
    /\ StartsAccept(n, message) => CanStart(n)
    /\ PNStep(n, handleWebSocketMessage(n, pn[n], message), "message", message, FALSE)

\* createOffer(targetId, targetName, chatSessionId), up to its first await
createOffer(n, targetId, targetName, chatSessionId) ==
    /\ CanStart(n)
    /\ PNStep(n, Eff(asyncStart(pn[n], "offer", targetId, targetName, chatSessionId, Undefined),
                     <<>>),
              "createOffer", NoMsg, FALSE)

\* acceptOffer(offer, senderId, senderName, chatSessionId), up to its first await
acceptOffer(n, offer, senderId, senderName, chatSessionId) ==
    /\ CanStart(n)
    /\ PNStep(n, Eff(asyncStart(pn[n], "answer", senderId, senderName, chatSessionId, offer),
                     <<>>),
              "acceptOffer", NoMsg, FALSE)

\* the rest of createOffer or acceptOffer, once the awaited calls have settled: with
\* the peer connection gone the call throws and the status is error; else the
\* description is set, the envelope sent and the peer recorded
asyncResume(n) ==
    /\ pn[n].pending.kind # "none"
    /\ LET r == pn[n]
           q == r.pending
           done == [r EXCEPT !.pending = NoPending]
       IN IF r.pc = NoPc
          THEN PNStep(n, Eff(updateStatus(done, "error", Undefined, Undefined), <<>>),
                      "resume", NoMsg, FALSE)
          ELSE IF q.kind = "offer"
          THEN PNStep(n,
                 Eff([done EXCEPT !.pc.local = "offer:" \o n,
                                  !.pc.signalingState = "have-local-offer",
                                  !.peerId = q.peer, !.peerName = q.name],
                     wsSend(r, <<>>,
                        [signalingType |-> "offer", senderId |-> n, senderName |-> "Me",
                         targetId |-> q.peer, sessionId |-> q.session,
                         payload |-> "offer:" \o n])),
                 "resume", NoMsg, TRUE)
          ELSE PNStep(n,
                 Eff([done EXCEPT !.pc.remote = q.offer, !.pc.local = "answer:" \o n,
                                  !.pc.signalingState = "stable",
                                  !.peerId = q.peer, !.peerName = q.name],
                     wsSend(r, <<>>,
                        [signalingType |-> "answer", senderId |-> n, senderName |-> "Me",
                         targetId |-> q.peer, sessionId |-> q.session,
                         payload |-> "answer:" \o n])),
                 "resume", NoMsg, TRUE)

\* the public closeConnection()
onCloseConnection(n) ==
    PNStep(n, closeConnection(n, pn[n], <<>>), "closeConnection", NoMsg, FALSE)

\* sendData(data): true, and transmitted, only through a held channel that is open
sendData(n) ==
    PNStep(n, Eff(pn[n], <<>>), "sendData", NoMsg, pn[n].dc = "open")

\* both descriptions are set, so the transport can come up
Negotiated(r) ==
    /\ r.pc # NoPc
    /\ r.pc.signalingState = "stable"
    /\ r.pc.local # Undefined
    /\ r.pc.remote # Undefined

\* pc.ondatachannel: the channel the remote side created arrives
ondatachannel(n) ==
    /\ Negotiated(pn[n])
    /\ pn[n].dc = "none"
    /\ PNStep(n, Eff(setupDataChannel(pn[n]), <<>>), "ondatachannel", NoMsg, FALSE)

\* channel.onopen of the channel held
channelOpen(n) ==
    /\ Negotiated(pn[n])
    /\ pn[n].dc = "connecting"
    /\ PNStep(n, Eff(updateStatus([pn[n] EXCEPT !.dc = "open"], "connected",
                                  pn[n].peerId, pn[n].peerName), <<>>),
              "channelOpen", NoMsg, FALSE)

\* channel.onclose of the channel held
channelClose(n) ==
    /\ pn[n].dc \in {"connecting", "open"}
    /\ PNStep(n, Eff(updateStatus([pn[n] EXCEPT !.dc = "closed"], "disconnected",
                                  Undefined, Undefined), <<>>),
              "channelClose", NoMsg, FALSE)

\* channel.onclose of a channel closed by closeConnection or initPeerConnection
staleChannelClose(n) ==
    /\ pn[n].staleClose
    /\ PNStep(n, Eff(updateStatus([pn[n] EXCEPT !.staleClose = FALSE], "disconnected",
                                  Undefined, Undefined), <<>>),
              "staleChannelClose", NoMsg, FALSE)

\* pc.oniceconnectionstatechange
oniceconnectionstatechange(n, iceConnectionState) ==
    /\ pn[n].pc # NoPc
    /\ PNStep(n, Eff(IF iceConnectionState \in {"disconnected", "failed", "closed"}
                     THEN updateStatus(pn[n], "disconnected", Undefined, Undefined)
                     ELSE pn[n], <<>>),
              "icestate", NoMsg, FALSE)

\* pc.onicecandidate: sent to the recorded peer when the socket is open
onicecandidate(n) ==
    /\ pn[n].pc # NoPc
    /\ pn[n].pc.local # Undefined
    /\ PNStep(n, Eff(pn[n],
                     IF pn[n].ws = "open" /\ ~Falsy(pn[n].peerId)
                     THEN wsSend(pn[n], <<>>,
                             SignalingContent("ice-candidate", n, pn[n].peerId,
                                IF Falsy(pn[n].sessionId) THEN "" ELSE pn[n].sessionId,
                                "candidate"))
                     ELSE <<>>),
              "icecandidate", NoMsg, FALSE)

\* the status of wsConnection changes
wsStatusChange(n, status) ==
    /\ pn[n].ws # status
    /\ PNStep(n, Eff([pn[n] EXCEPT !.ws = status], <<>>), "ws", NoMsg, FALSE)

\* who an inbound envelope may say it is from: a negotiator, a third party, nobody
SenderIds == LocalIds \cup {"x", Undefined}

SignalingPayload(k, s) == IF k = "ice-candidate" THEN "candidate" ELSE k \o ":" \o s

\* the messages a negotiator's listener may be handed
InboundMessages ==
    { [type |-> "signaling",
       content |-> SignalingContent(k, s, t, "s1", SignalingPayload(k, s))] :
         k \in SignalingTypes, s \in SenderIds, t \in LocalIds }
    \cup {[type |-> "chat", content |-> "hello"]}

\* negotiators meet only through envelopes, so one is driven on its own and the
\* envelopes it is handed stand for everything the other side could send
DrivenIds == {"n1"}

PNNext ==
    \/ \E n \in DrivenIds, m \in InboundMessages :
          onWebSocketMessage(n, m) /\ UNCHANGED nonPNVars
    \/ \E n \in DrivenIds, t \in LocalIds :
          createOffer(n, t, "Bob", "s1") /\ UNCHANGED nonPNVars
    \/ \E n \in DrivenIds, s \in LocalIds :
          acceptOffer(n, "offer:" \o s, s, "Bob", "s1")
             /\ UNCHANGED nonPNVars
    \/ \E n \in DrivenIds : asyncResume(n) /\ UNCHANGED nonPNVars
    \/ \E n \in DrivenIds : onCloseConnection(n) /\ UNCHANGED nonPNVars
    \/ \E n \in DrivenIds : sendData(n) /\ UNCHANGED nonPNVars
    \/ \E n \in DrivenIds : ondatachannel(n) /\ UNCHANGED nonPNVars
    \/ \E n \in DrivenIds : channelOpen(n) /\ UNCHANGED nonPNVars
    \/ \E n \in DrivenIds : channelClose(n) /\ UNCHANGED nonPNVars
    \/ \E n \in DrivenIds : staleChannelClose(n) /\ UNCHANGED nonPNVars
    \/ \E n \in DrivenIds, st \in {"connected", "failed"} :
          oniceconnectionstatechange(n, st)
             /\ UNCHANGED nonPNVars
    \/ \E n \in DrivenIds : onicecandidate(n) /\ UNCHANGED nonPNVars
    \/ \E n \in DrivenIds, st \in {"open", "closed"} :
          wsStatusChange(n, st) /\ UNCHANGED nonPNVars

-----------------------------------------------------------------------------
(* Two negotiators signaling through the relay *)

\* negotiator n1 signals over the relay's first connection, n2 over its second
ConnOf(n) == IF n = "n1" THEN "c1" ELSE "c2"
NegOf(c) == IF c = "c1" THEN "n1" ELSE "n2"

MaxInFlight == 1

\* what the relay's last step sent, added to what is in flight to each negotiator
Delivering == [n \in LocalIds |-> inbox[n] \o sent'[ConnOf(n)]]

RelayToInbox ==
    /\ \A n \in LocalIds : Len(Delivering[n]) <= MaxInFlight
    /\ inbox' = Delivering

\* what negotiator n's last step transmitted, added to what is in flight to the relay
NegToWire(n) ==
    /\ Len(wire[n] \o pnOut'[n]) <= MaxInFlight
    /\ wire' = [wire EXCEPT ![n] = @ \o pnOut'[n]]

\* the relay's ws.on('message') for the message at the head of n's wire: signaling
\* messages go to handleSignalingMessage
relayReceives(n) ==
    /\ wire[n] # <<>>
    /\ Head(wire[n]).type = "signaling"
    /\ handleSignalingMessage(ConnOf(n), Head(wire[n]))
    /\ wire' = [wire EXCEPT ![n] = Tail(@)]
    /\ RelayToInbox

\* whom a negotiator may name as the target of an offer: the other side's local
\* identity, or the identity the relay gave the other side's connection
OfferTargets(n) == (LocalIds \ {n}) \cup {ConnOf(m) : m \in LocalIds \ {n}}

\* the join messages of the two users behind the negotiators
RTJoinMessages == {m \in JoinMessages : m.userId # Undefined}

RTNext ==
    \/ /\ nextId <= Cardinality(LocalIds)
       /\ onConnection
       /\ wsStatusChange(NegOf("c" \o ToString(nextId)), "open")
       /\ RelayToInbox
       /\ UNCHANGED <<wire, chatLog, left, cmVars, closes, quiet>>
    \/ \E n \in LocalIds, m \in RTJoinMessages :
          /\ handleJoinSession(ConnOf(n), m)
          /\ RelayToInbox
          /\ UNCHANGED <<wire, chatLog, pnVars, left, cmVars, closes, quiet>>
    \/ \E n \in LocalIds :
          relayReceives(n) /\ UNCHANGED <<chatLog, pnVars, left, cmVars, closes, quiet>>
    \/ \E n \in LocalIds :
          /\ inbox[n] # <<>>
          /\ onWebSocketMessage(n, Head(inbox[n]))
          /\ inbox' = [inbox EXCEPT ![n] = Tail(@)]
          /\ NegToWire(n)
          /\ UNCHANGED <<chatLog, relayVars, left, cmVars, closes, quiet>>
    \/ \E n \in DrivenIds, s \in SessionIds :
          \E t \in OfferTargets(n) : createOffer(n, t, "Bob", s) /\ UNCHANGED nonPNVars
    \/ \E n \in LocalIds :
          /\ asyncResume(n)
          /\ NegToWire(n)
          /\ UNCHANGED <<inbox, chatLog, relayVars, left, cmVars, closes, quiet>>

-----------------------------------------------------------------------------
(* Two negotiators whose envelopes reach each other *)

\* how many envelopes may be in flight to one negotiator
MaxQueued == 2

\* the envelopes negotiator n's step transmitted, each put in flight to the
\* negotiator it names as target; one that names nobody here is lost
Routed(queues, n) ==
    [m \in LocalIds |->
       queues[m] \o SelectSeq(pnOut'[n], LAMBDA e : e.content.targetId = m)]

PeerToInbox(queues, n) ==
    /\ \A m \in LocalIds : Len(Routed(queues, n)[m]) <= MaxQueued
    /\ inbox' = Routed(queues, n)

\* an offer from a third party, addressed to negotiator n
StrayOffer(n) ==
    [type |-> "signaling",
     content |-> SignalingContent("offer", "x", n, "s1", SignalingPayload("offer", "x"))]

pairRest == <<wire, chatLog, relayVars, left, cmVars, closes, quiet>>

\* two negotiators that call createOffer only while disconnected and never close
PairNext ==
    \/ \E n \in LocalIds :
          wsStatusChange(n, "open") /\ UNCHANGED <<inbox, pairRest>>
    \/ \E n \in LocalIds : \E t \in LocalIds \ {n} :
          /\ pn[n].status = "disconnected"
          /\ createOffer(n, t, "Bob", "s1")
          /\ UNCHANGED <<inbox, pairRest>>
    \/ \E n \in LocalIds :
          asyncResume(n) /\ PeerToInbox(inbox, n) /\ UNCHANGED pairRest
    \/ \E n \in LocalIds :
          /\ inbox[n] # <<>>
          /\ onWebSocketMessage(n, Head(inbox[n]))
          /\ PeerToInbox([inbox EXCEPT ![n] = Tail(@)], n)
          /\ UNCHANGED pairRest
    \/ \E n \in LocalIds :
          onWebSocketMessage(n, StrayOffer(n)) /\ UNCHANGED <<inbox, pairRest>>
    \/ \E n \in LocalIds : ondatachannel(n) /\ UNCHANGED <<inbox, pairRest>>
    \/ \E n \in LocalIds : channelOpen(n) /\ UNCHANGED <<inbox, pairRest>>

-----------------------------------------------------------------------------
(* Chats from the members' sockets through the relay to the members' sockets *)

\* how many chats a connection puts on its socket
MaxChats == 2

NoChatLog ==
    [submitted |-> [c \in ConnIds |-> 0],
     inFlight |-> [c \in ConnIds |-> <<>>],
     processed |-> <<>>,
     received |-> [c \in ConnIds |-> <<>>]]

\* the number a chat's content spells
ChatSeq(content) == CHOOSE k \in 1..MaxChats : ToString(k) = content

\* the chat events among the messages a step sent to one socket, each named by the
\* connection whose chat it relays and that chat's number
ChatTags(clientId, out) ==
    LET chats == SelectSeq(out, LAMBDA m : m.type = "chat")
    IN [i \in 1..Len(chats) |-> [c |-> clientId, k |-> ChatSeq(chats[i].content)]]

\* ws.send that puts a message ahead of those handed to the socket before: a mutant
SocketSendAhead(queue, msgs) == msgs \o queue

\* ws.send: what is handed to a socket goes out after what was handed to it before
SocketSend(queue, msgs) == queue \o msgs

\* a member's client sends its next chat: it is in flight behind the earlier ones
sendChat(clientId) ==
    /\ clientId \in DOMAIN clients
    /\ clients[clientId].ws = "OPEN"
    /\ chatLog.submitted[clientId] < MaxChats
    /\ LET k == chatLog.submitted[clientId] + 1
       IN chatLog' = [chatLog EXCEPT
                        !.submitted[clientId] = k,
                        !.inFlight[clientId] =
                            SocketSend(@, <<[type |-> "chat", content |-> ToString(k),
                                             messageType |-> Undefined]>>)]
    /\ UNCHANGED <<wire, inbox>>

\* the relay's ws.on('message') for the chat at the head of what a connection has
\* in flight; each socket is handed what handleChatMessage sends to it
relayReceivesChat(clientId) ==
    /\ chatLog.inFlight[clientId] # <<>>
    /\ handleChatMessage(clientId, Head(chatLog.inFlight[clientId]))
    /\ chatLog' =
          [chatLog EXCEPT
             !.inFlight[clientId] = Tail(@),
             !.processed = Append(@, [c |-> clientId,
                                      k |-> ChatSeq(Head(chatLog.inFlight[clientId]).content)]),
             !.received = [d \in ConnIds |->
                             SocketSend(chatLog.received[d], ChatTags(clientId, sent'[d]))]]
    /\ UNCHANGED <<wire, inbox>>

\* the joins of the members that chat
ChatJoinMessages == {m \in JoinMessages : m.userId # Undefined}

\* presence and chat traffic with the chats in flight and the history of deliveries
ChatNext ==
    \/ onConnection /\ UNCHANGED nonRelayVars
    \/ \E c \in ConnIds : socketClosing(c) /\ UNCHANGED nonRelayVars
    \/ \E c \in ConnIds : onClose(c) /\ UNCHANGED nonRelayVars
    \/ \E c \in ConnIds, m \in ChatJoinMessages :
          handleJoinSession(c, m) /\ UNCHANGED nonRelayVars
    \/ \E c \in ConnIds : handleLeaveSession(c) /\ UNCHANGED nonRelayVars
    \/ \E c \in ConnIds :
          sendChat(c) /\ UNCHANGED <<relayVars, left, cmVars, closes, quiet, pnVars>>
    \/ \E c \in ConnIds :
          relayReceivesChat(c) /\ UNCHANGED <<left, cmVars, closes, quiet, pnVars>>

-----------------------------------------------------------------------------
(* Two linked negotiators closing their connection *)

\* the negotiators once n1's offer to n2 has been answered and both channels are open
LinkedPn ==
    [n \in LocalIds |->
       [status |-> "connected",
        peerId |-> IF n = "n1" THEN "n2" ELSE "n1",
        peerName |-> IF n = "n1" THEN "Bob" ELSE "Peer",
        isInitiator |-> (n = "n1"),
        sessionId |-> "s1",
        pc |-> [signalingState |-> "stable",
                local |-> IF n = "n1" THEN "offer:n1" ELSE "answer:n2",
                remote |-> IF n = "n1" THEN "answer:n2" ELSE "offer:n1",
                candidates |-> {}],
        dc |-> "open", staleClose |-> FALSE, ws |-> "open",
        pending |-> NoPending, notified |-> "connected"]]

LinkInit ==
    /\ RelayInit /\ left = {} /\ CMInit /\ chatLog = NoChatLog
    /\ pn = LinkedPn
    /\ pnOut = [n \in LocalIds |-> <<>>]
    /\ pnLast = [op |-> "channelOpen", n |-> "n2", msg |-> NoMsg, result |-> FALSE]
    /\ wire = [n \in LocalIds |-> <<>>]
    /\ inbox = [n \in LocalIds |-> <<>>]

\* the negotiator is handed the envelope at the head of what is in flight to it
LinkReceive(n) ==
    /\ inbox[n] # <<>>
    /\ onWebSocketMessage(n, Head(inbox[n]))
    /\ PeerToInbox([inbox EXCEPT ![n] = Tail(@)], n)
    /\ UNCHANGED pairRest

\* the channel's close event once the other side has closed its peer connection
LinkRemoteClose(n) ==
    /\ \E m \in LocalIds \ {n} : pn[m].pc = NoPc
    /\ channelClose(n)
    /\ UNCHANGED <<inbox, pairRest>>

LinkNext ==
    \/ \E n \in LocalIds :
          onCloseConnection(n) /\ PeerToInbox(inbox, n) /\ UNCHANGED pairRest
    \/ \E n \in LocalIds : LinkReceive(n)
    \/ \E n \in LocalIds : LinkRemoteClose(n)
    \/ \E n \in LocalIds : staleChannelClose(n) /\ UNCHANGED <<inbox, pairRest>>
    \/ \E n \in LocalIds, st \in {"open", "closed"} :
          wsStatusChange(n, st) /\ UNCHANGED <<inbox, pairRest>>
    \/ \E n \in LocalIds : sendData(n) /\ UNCHANGED <<inbox, pairRest>>

-----------------------------------------------------------------------------
(* Specifications *)

Init == RelayInit /\ left = {} /\ CMInit /\ PNInit /\ chatLog = NoChatLog

Next == RelayNext

Spec == Init /\ [][Next]_vars

SpecSignal == Init /\ [][SignalNext]_vars

SpecLeft == Init /\ [][LeftNext]_vars

SpecJoin == Init /\ [][JoinNext]_vars

SpecCM == Init /\ [][CMNext]_vars

SpecPN == Init /\ [][PNNext]_vars

SpecRT == Init /\ [][RTNext]_vars

SpecChat == Init /\ [][ChatNext]_vars

SpecPair == Init /\ [][PairNext]_vars

\* envelopes in flight are delivered, and a channel whose other end is gone closes
SpecLink ==
    /\ LinkInit
    /\ [][LinkNext]_vars
    /\ \A n \in LocalIds : WF_vars(LinkReceive(n)) /\ WF_vars(LinkRemoteClose(n))

-----------------------------------------------------------------------------
(* Claims about the relay *)

Registered == DOMAIN clients

\* the sessions whose member set holds c
SessionsOf(c) == {s \in DOMAIN sessions : c \in sessions[s]}

\* the registered connections whose session field is s
CurrentMembers(s) == {c \in Registered : clients[c].sessionId = s}

\* C1: every connection identity is in the member set of at most one session
C1_AtMostOneSession == \A c \in ConnIds : Cardinality(SessionsOf(c)) <= 1

BroadcastKinds == {"chat", "user_joined", "user_left", "user_updated"}

\* the session the last handler broadcast to, if it broadcast
BroadcastSession ==
    CASE last.op = "chat" -> clients[last.c].sessionId
      [] last.op = "identify" -> clients[last.c].sessionId
      [] last.op = "join" -> last.msg.sessionId
      [] OTHER -> Undefined

\* C3: once leave(C) has been processed with C in S's member set, C receives no chat
\* or user_* event broadcast to S until C joins S again
C3_NoBroadcastAfterLeave ==
    \A p \in left :
        BroadcastSession = p[2] =>
            \A i \in 1..Len(sent[p[1]]) : sent[p[1]][i].type \notin BroadcastKinds

\* C4: a join creates the session it names; once a connection has left or
\* disconnected, a session that no registered connection has as its current session
\* is absent from the map; and a join by C while no other registered connection is
\* in any session leaves the member set of the joined session exactly {C}
C4_SessionLifecycle ==
    /\ last.op = "join" => last.msg.sessionId \in DOMAIN sessions
    /\ last.op \in {"leave", "close"}
           => \A s \in DOMAIN sessions : CurrentMembers(s) # {}
    /\ (/\ last.op = "join"
        /\ \A d \in Registered \ {last.c} : clients[d].sessionId = Undefined)
           => sessions[last.msg.sessionId] = {last.c}

\* the messages of one type in what the last handler sent to d
SentOfType(d, type) == SelectSeq(sent[d], LAMBDA m : m.type = type)

\* the last handler ran for a signaling envelope whose sender and target both have
\* the session the envelope states as their current session
SignalEligible ==
    /\ last.op = "signaling"
    /\ clients[last.c].sessionId # Undefined
    /\ clients[last.c].sessionId = last.msg.sessionId
    /\ last.msg.targetId \in Registered
    /\ clients[last.msg.targetId].sessionId = last.msg.sessionId

\* the sender alone was sent something: exactly one error
OneErrorToSender ==
    /\ Len(sent[last.c]) = 1
    /\ sent[last.c][1].type = "error"
    /\ \A d \in ConnIds \ {last.c} : sent[d] = <<>>

\* C2 as stated: the envelope is forwarded if and only if sender and target are both
\* current members of the stated session; otherwise one error goes to the sender and
\* nothing is delivered
C2_ForwardIffBothMembers ==
    last.op = "signaling" =>
        IF SignalEligible
        THEN Len(SentOfType(last.msg.targetId, "signaling")) = 1
        ELSE OneErrorToSender

\* C2, amended: the envelope is forwarded, to the target alone and once, if and only
\* if sender and target both have the stated session as their current session and
\* the target's socket is open; when the sessions do not match, one error goes to
\* the sender and nothing is delivered; when only the target's socket is not open,
\* nothing is sent at all
C2_ForwardIffBothMembersAndOpen ==
    last.op = "signaling" =>
        IF SignalEligible
        THEN \A d \in ConnIds :
                sent[d] = IF d = last.msg.targetId /\ clients[d].ws = "OPEN"
                          THEN <<[f \in DOMAIN last.msg \cup {"senderName", "userType"} |->
                                    IF f = "senderName" THEN clients[last.c].displayName
                                    ELSE IF f = "userType" THEN clients[last.c].userType
                                    ELSE last.msg[f]]>>
                          ELSE <<>>
        ELSE OneErrorToSender

C2_Witness ==
    /\ SignalEligible
    /\ last.msg.targetId # last.c
    /\ Len(sent[last.msg.targetId]) = 1
    /\ sent[last.c] = <<>>

\* the chat event the relay builds for the last chat message
ChatEvent ==
    [type |-> "chat", userId |-> clients[last.c].userId,
     displayName |-> clients[last.c].displayName,
     content |-> last.msg.content,
     messageType |-> IF last.msg.messageType = Undefined THEN "human"
                     ELSE last.msg.messageType,
     timestamp |-> "now"]

ChatInSession == last.op = "chat" /\ clients[last.c].sessionId # Undefined

\* C10 as stated: a chat from a member of S puts exactly one chat event, with the
\* sender's identity and name, the content and the kind, in front of every current
\* member of S, the sender included
C10_ChatToEveryMember ==
    ChatInSession =>
        \A d \in CurrentMembers(clients[last.c].sessionId) : sent[d] = <<ChatEvent>>

\* C10, amended: the chat event goes, once, to every connection in S's member set
\* whose socket is open, the sender included, and nothing goes to anyone else
C10_ChatToEveryOpenMember ==
    ChatInSession =>
        \A d \in ConnIds :
            sent[d] = IF /\ d \in sessions[clients[last.c].sessionId]
                         /\ d \in Registered
                         /\ clients[d].ws = "OPEN"
                      THEN <<ChatEvent>> ELSE <<>>

C10_Witness ==
    /\ ChatInSession
    /\ Cardinality(CurrentMembers(clients[last.c].sessionId)) >= 2
    /\ \A d \in CurrentMembers(clients[last.c].sessionId) : sent[d] = <<ChatEvent>>
    /\ clients[last.c].displayName # Undefined

-----------------------------------------------------------------------------
(* Claims about the Connection Manager *)

UncleanClose == cmLast.op = "onclose" /\ cmLast.code # 1000

C6_DisconnectIsFinal ==
    /\ cmLast.op = "disconnect"
          => cm.status = "disconnected" /\ cm.reconnectAttempt = 0 /\ timers = {}
    /\ quiet # Null => cm.status # "connecting" /\ nextSocket = quiet

\* C7 as stated, its first leg: when the relay has handled the envelope a negotiator
\* sent for its offer, and the sender's connection and the target's connection both
\* have the session the envelope states as their current session, the envelope has
\* gone to the target's connection, and to no other
C7_RoundTrip ==
    (/\ last.op = "signaling"
     /\ "content" \in DOMAIN last.msg
     /\ last.msg.content.signalingType = "offer"
     /\ LET t == IF last.msg.content.targetId \in LocalIds
                 THEN ConnOf(last.msg.content.targetId)
                 ELSE last.msg.content.targetId
        IN /\ t \in Registered \ {last.c}
           /\ clients[last.c].sessionId = last.msg.content.sessionId
           /\ clients[t].sessionId = last.msg.content.sessionId)
    => LET t == IF last.msg.content.targetId \in LocalIds
                THEN ConnOf(last.msg.content.targetId)
                ELSE last.msg.content.targetId
       IN /\ Len(SentOfType(t, "signaling")) = 1
          /\ \A d \in ConnIds \ {t} : SentOfType(d, "signaling") = <<>>

-----------------------------------------------------------------------------
(* Claims about the Peer Negotiator *)

\* the step just taken handled a signaling envelope
HandledEnvelope == pnLast'.op = "message" /\ pnLast'.msg.type = "signaling"

\* the negotiator that took the step is as it was, and transmitted nothing
Ignored == pn' = pn /\ pnOut'[pnLast'.n] = <<>>

\* C8 as stated: an answer, ice-candidate or peer-disconnect addressed to the
\* negotiator whose sender is not the recorded remote peer is ignored
C8_IgnoresOtherSender ==
    [][(/\ HandledEnvelope
        /\ pnLast'.msg.content.targetId = pnLast'.n
        /\ pnLast'.msg.content.signalingType \in {"answer", "ice-candidate", "peer-disconnect"}
        /\ pnLast'.msg.content.senderId # pn[pnLast'.n].peerId)
       => Ignored]_vars

\* C9: a signaling envelope whose targetId is not the negotiator's localId is
\* ignored, whatever its kind and whatever the status
C9_IgnoresOtherTarget ==
    [][(HandledEnvelope /\ pnLast'.msg.content.targetId # pnLast'.n) => Ignored]_vars

\* an answer from the recorded peer, addressed to someone else, was handed to a
\* negotiator that is connecting and has its offer out
C9_Witness ==
    /\ pnLast.op = "message"
    /\ pnLast.msg.type = "signaling"
    /\ pnLast.msg.content.targetId # pnLast.n
    /\ pnLast.msg.content.signalingType = "answer"
    /\ pn[pnLast.n].status = "connecting"
    /\ pn[pnLast.n].pc.signalingState = "have-local-offer"
    /\ pnLast.msg.content.senderId = pn[pnLast.n].peerId

-----------------------------------------------------------------------------
(* C11 *)

\* the reply handleChatMessage gives a client that has no session
MustJoinError ==
    [type |-> "error", message |-> "You must join a session before sending messages"]

\* C11: a chat message from a connection that is in no session gets exactly one error
\* reply, sent to that connection; nobody receives a chat event or anything else, and
\* the connection map and the session map are left as they were
C11_ChatWithoutSession ==
    [][(last'.op = "chat" /\ clients[last'.c].sessionId = Undefined) =>
          /\ sent'[last'.c] = <<MustJoinError>>
          /\ \A d \in ConnIds \ {last'.c} : sent'[d] = <<>>
          /\ clients' = clients
          /\ sessions' = sessions]_vars

\* a chat from a session-less connection has been answered while another connection
\* sits in a session
C11_Witness ==
    /\ last.op = "chat"
    /\ clients[last.c].sessionId = Undefined
    /\ sent[last.c] = <<MustJoinError>>
    /\ \E d \in Registered \ {last.c} : clients[d].sessionId # Undefined

-----------------------------------------------------------------------------
(* C12 *)

\* the envelope the relay forwards: the one received, with the sender's recorded
\* display name and participant kind attached
ForwardedMessage ==
    [f \in DOMAIN last.msg \cup {"senderName", "userType"} |->
        IF f = "senderName" THEN clients[last.c].displayName
        ELSE IF f = "userType" THEN clients[last.c].userType
        ELSE last.msg[f]]

\* C12 as stated: an envelope that passes the relay's checks is delivered exactly
\* once, to the target, with the sender's recorded name and kind attached; no other
\* connection receives anything, and the sender receives neither a copy nor an
\* acknowledgment
C12_RelayedToTargetOnly ==
    SignalEligible =>
        /\ sent[last.msg.targetId] = <<ForwardedMessage>>
        /\ \A d \in ConnIds \ {last.msg.targetId} : sent[d] = <<>>
        /\ sent[last.c] = <<>>

\* C12, amended: an envelope that passes the relay's checks is delivered to the target
\* alone, exactly once when the target's socket is open and not at all otherwise, with
\* the sender's recorded name and kind attached; no other connection receives
\* anything, and the sender receives nothing unless it named itself as the target
C12_RelayedToOpenTargetOnly ==
    SignalEligible =>
        /\ Len(sent[last.msg.targetId]) =
              IF clients[last.msg.targetId].ws = "OPEN" THEN 1 ELSE 0
        /\ \A i \in 1..Len(sent[last.msg.targetId]) :
              sent[last.msg.targetId][i] = ForwardedMessage
        /\ \A d \in ConnIds \ {last.msg.targetId} : sent[d] = <<>>
        /\ last.msg.targetId # last.c => sent[last.c] = <<>>

\* an envelope from a sender with a recorded name and kind has been forwarded to
\* another connection of its session
C12_Witness ==
    /\ SignalEligible
    /\ last.msg.targetId # last.c
    /\ Len(sent[last.msg.targetId]) = 1
    /\ sent[last.msg.targetId][1].senderName = "Ann"
    /\ sent[last.msg.targetId][1].userType = "ai"
    /\ sent[last.c] = <<>>

-----------------------------------------------------------------------------
(* C13 *)

\* C13: after every handled message or close, no session of the session map has an
\* empty member set
C13_NoEmptySession == \A s \in DOMAIN sessions : sessions[s] # {}

\* the last member of a session has just left it and the session is gone
C13_Witness ==
    /\ last.op = "leave"
    /\ sent = NoSent
    /\ \E s \in SessionIds : <<last.c, s>> \in left /\ s \notin DOMAIN sessions

-----------------------------------------------------------------------------
(* C14 *)

\* the acknowledgment and the event handleJoinSession builds for the last join
JoinedAck ==
    [type |-> "joined", sessionId |-> last.msg.sessionId,
     userId |-> clients[last.c].userId, displayName |-> clients[last.c].displayName]

UserJoined ==
    [type |-> "user_joined", userId |-> clients[last.c].userId,
     displayName |-> clients[last.c].displayName, userType |-> clients[last.c].userType]

\* C14 as stated: a join sends exactly one joined acknowledgment, and no user_joined,
\* to the joining connection and exactly one user_joined event with the joiner's
\* identity, name and kind to every other member of the joined session
C14_JoinNotifiesMembers ==
    last.op = "join" =>
        /\ sent[last.c] = <<JoinedAck>>
        /\ \A d \in sessions[last.msg.sessionId] \ {last.c} : sent[d] = <<UserJoined>>

\* C14, amended: a join sends exactly one joined acknowledgment, and no user_joined,
\* to the joining connection and exactly one user_joined event with the joiner's
\* identity, name and kind to every other member of the joined session's set that is
\* registered with an open socket; nobody else is sent anything
C14_JoinNotifiesOpenMembers ==
    last.op = "join" =>
        \A d \in ConnIds :
            sent[d] = IF d = last.c THEN <<JoinedAck>>
                      ELSE IF /\ d \in sessions[last.msg.sessionId]
                              /\ d \in Registered
                              /\ clients[d].ws = "OPEN"
                      THEN <<UserJoined>>
                      ELSE <<>>

\* a join has been acknowledged and announced to another member of the session
C14_Witness ==
    /\ last.op = "join"
    /\ sent[last.c] = <<JoinedAck>>
    /\ \E d \in sessions[last.msg.sessionId] \ {last.c} : sent[d] = <<UserJoined>>

-----------------------------------------------------------------------------
(* C15 *)

\* the step is a leave or a close of a connection that has a current session
LeavesSession ==
    /\ last'.op \in {"leave", "close"}
    /\ clients[last'.c].sessionId # Undefined

\* the members the departing connection leaves behind in its current session
Remaining ==
    IF clients[last'.c].sessionId \in DOMAIN sessions
    THEN sessions[clients[last'.c].sessionId] \ {last'.c}
    ELSE {}

\* the event handleLeaveSession and ws.on('close') build for the departing connection
UserLeft ==
    [type |-> "user_left", userId |-> clients[last'.c].userId,
     displayName |-> clients[last'.c].displayName]

\* C15 as stated: when a connection with a current session leaves or is closed, every
\* member remaining in that session receives exactly one user_left with the departing
\* connection's identity and name, the departing connection receives none, and the
\* session stays in the map exactly when a member remains
C15_LeaveNotifiesRemaining ==
    [][LeavesSession =>
          /\ \A d \in Remaining : sent'[d] = <<UserLeft>>
          /\ sent'[last'.c] = <<>>
          /\ clients[last'.c].sessionId \in DOMAIN sessions' <=> Remaining # {}]_vars

\* C15, amended: when a connection with a current session leaves or is closed, every
\* member remaining in that session's set that is registered with an open socket
\* receives exactly one user_left with the departing connection's identity and name,
\* nobody else (the departing connection included) is sent anything, and the session
\* stays in the map exactly when a member remains
C15_LeaveNotifiesOpenRemaining ==
    [][LeavesSession =>
          /\ \A d \in ConnIds :
                sent'[d] = IF /\ d \in Remaining
                              /\ d \in Registered
                              /\ clients[d].ws = "OPEN"
                           THEN <<UserLeft>>
                           ELSE <<>>
          /\ clients[last'.c].sessionId \in DOMAIN sessions' <=> Remaining # {}]_vars

\* a close has been announced to a member that stays in the session
C15_Witness ==
    /\ last.op = "close"
    /\ last.c \notin Registered
    /\ \E s \in DOMAIN sessions : \E d \in sessions[s] \ {last.c} :
          /\ Len(sent[d]) = 1
          /\ sent[d][1].type = "user_left"
    /\ sent[last.c] = <<>>

-----------------------------------------------------------------------------
(* C16 *)

\* C16: the close of a connection's channel leaves the session map, and sends the
\* other connections the events, that handleLeaveSession for that connection would,
\* and the connection map is the one after that leave without the connection; for a
\* connection with no session it only removes the connection, sends nothing and
\* changes no session
C16_CloseIsLeaveThenDeregister ==
    [][last'.op = "close" =>
          LET r == LeaveSession(clients, sessions, last'.c)
          IN /\ sessions' = r.sessions
             /\ \A d \in ConnIds \ {last'.c} : sent'[d] = r.sent[d]
             /\ clients' = MapDelete(r.clients, last'.c)
             /\ clients[last'.c].sessionId = Undefined =>
                   /\ sessions' = sessions
                   /\ sent' = NoSent
                   /\ clients' = MapDelete(clients, last'.c)]_vars

\* a connection has been closed out of a session that lives on, and a registered
\* member of that session has been told
C16_Witness ==
    /\ last.op = "close"
    /\ last.c \notin Registered
    /\ \E d \in Registered :
          /\ clients[d].sessionId \in DOMAIN sessions
          /\ SentOfType(d, "user_left") # <<>>

-----------------------------------------------------------------------------
(* C17 *)

\* the acknowledgment and the event handleIdentify builds, from the identifying
\* connection's fields as the step leaves them
Identified ==
    [type |-> "identified", userId |-> clients'[last'.c].userId,
     displayName |-> clients'[last'.c].displayName,
     userType |-> clients'[last'.c].userType]

UserUpdated ==
    [type |-> "user_updated", userId |-> clients'[last'.c].userId,
     displayName |-> clients'[last'.c].displayName,
     userType |-> clients'[last'.c].userType]

\* the other members of the identifying connection's session; nobody without one
OtherMembers ==
    IF clients[last'.c].sessionId \in DOMAIN sessions
    THEN sessions[clients[last'.c].sessionId] \ {last'.c}
    ELSE {}

\* C17 as stated: identify leaves the session map and the connection's session field
\* unchanged, sends exactly one identified acknowledgment to the connection, and
\* sends user_updated to exactly the other members of its session, to nobody when it
\* has none
C17_IdentifyNotifiesMembers ==
    [][last'.op = "identify" =>
          /\ sessions' = sessions
          /\ clients'[last'.c].sessionId = clients[last'.c].sessionId
          /\ sent'[last'.c] = <<Identified>>
          /\ \A d \in ConnIds \ {last'.c} :
                sent'[d] = IF d \in OtherMembers THEN <<UserUpdated>> ELSE <<>>]_vars

\* C17, amended: identify leaves the session map and the connection's session field
\* unchanged, sends exactly one identified acknowledgment to the connection, and
\* sends user_updated to exactly the other members of its session's set that are
\* registered with an open socket, to nobody when it has no session
C17_IdentifyNotifiesOpenMembers ==
    [][last'.op = "identify" =>
          /\ sessions' = sessions
          /\ clients'[last'.c].sessionId = clients[last'.c].sessionId
          /\ sent'[last'.c] = <<Identified>>
          /\ \A d \in ConnIds \ {last'.c} :
                sent'[d] = IF /\ d \in OtherMembers
                              /\ d \in Registered
                              /\ clients[d].ws = "OPEN"
                           THEN <<UserUpdated>>
                           ELSE <<>>]_vars

\* an identify carrying a new name has been acknowledged and announced to another
\* member of the session
C17_Witness ==
    /\ last.op = "identify"
    /\ last.msg.displayName = "Ann"
    /\ Len(sent[last.c]) = 1
    /\ sent[last.c][1].type = "identified"
    /\ sent[last.c][1].displayName = "Ann"
    /\ \E d \in Registered \ {last.c} :
          /\ clients[d].sessionId = clients[last.c].sessionId
          /\ SentOfType(d, "user_updated") # <<>>

-----------------------------------------------------------------------------
(* C18 *)

\* the replies ws.on('message') gives to a payload it cannot parse and to a type
\* outside its switch
InvalidReplies ==
    { [type |-> "error", message |-> r] :
        r \in {"Invalid message format", "Invalid message type"} }

\* the relay would handle a further message from connection c
StillServed(c) ==
    /\ ENABLED (\E m \in ChatMessages : handleChatMessage(c, m))
    /\ ENABLED (\E m \in JoinMessages : handleJoinSession(c, m))
    /\ ENABLED (\E r \in {"Invalid message format", "Invalid message type"} :
                   onInvalidMessage(c, r))

\* C18: a message that cannot be parsed, or whose type is none of join, leave, chat,
\* identify and signaling, gets exactly one error reply, sent to its originator;
\* nothing goes to any other connection, the connection map and the session map are
\* unchanged, and the relay goes on handling messages from every connection whose
\* socket is open, the originator included
C18_InvalidMessageOnlyAnswered ==
    /\ [][last'.op = "invalid" =>
             /\ Len(sent'[last'.c]) = 1
             /\ sent'[last'.c][1] \in InvalidReplies
             /\ \A d \in ConnIds \ {last'.c} : sent'[d] = <<>>
             /\ clients' = clients
             /\ sessions' = sessions]_vars
    /\ [](last.op = "invalid" =>
             \A c \in Registered : clients[c].ws = "OPEN" => StillServed(c))

\* a bad message has been answered while another connection sits in a session with
\* its socket open
C18_Witness ==
    /\ last.op = "invalid"
    /\ Len(sent[last.c]) = 1
    /\ sent[last.c][1] \in InvalidReplies
    /\ clients[last.c].ws = "OPEN"
    /\ \E d \in Registered \ {last.c} :
          clients[d].sessionId # Undefined /\ clients[d].ws = "OPEN"

-----------------------------------------------------------------------------
(* C19 *)

\* C19: a join message without a sessionId gets exactly one error reply, sent to its
\* sender, and is otherwise ignored: the session map is unchanged (no session is
\* created, no member set changes), the sender's session field is unchanged, and
\* nobody is sent a joined or user_joined event
C19_JoinWithoutSessionRejected ==
    [][(last'.op = "join" /\ last'.msg.sessionId = Undefined) =>
          /\ Len(sent'[last'.c]) = 1
          /\ sent'[last'.c][1].type = "error"
          /\ \A d \in ConnIds \ {last'.c} : sent'[d] = <<>>
          /\ sessions' = sessions
          /\ clients'[last'.c].sessionId = clients[last'.c].sessionId]_vars

-----------------------------------------------------------------------------
(* C20 *)

-----------------------------------------------------------------------------
(* C21 *)

-----------------------------------------------------------------------------
(* C22 *)

\* C22 as stated: sendMessage returns true only when the status is connected; in
\* every other status it returns false and transmits nothing; and in no status does
\* it change the manager's state, its sockets or its timeouts
C22_SendOnlyWhenConnected ==
    [][cmLast'.op = "sendMessage" =>
          /\ cm.status # "connected" => ~cmLast'.result /\ ~cmLast'.transmitted
          /\ cm' = cm
          /\ sockets' = sockets
          /\ timers' = timers]_vars

-----------------------------------------------------------------------------
(* C23 *)

\* the manager's sockets that are connecting or open (one that is closing, on its
\* way out after close(), is not counted)
LiveSockets == {s \in DOMAIN sockets : sockets[s].readyState \in {"CONNECTING", "OPEN"}}

\* C23: in every reachable state the manager has at most one socket that is connecting
\* or open, socketRef refers to it, and whenever the status is connected socketRef
\* is set and the socket it refers to is open
C23_OneChannel ==
    /\ Cardinality(LiveSockets) <= 1
    /\ \A s \in LiveSockets : cm.socketRef = s
    /\ cm.status = "connected" =>
          /\ cm.socketRef # Null
          /\ cm.socketRef \in DOMAIN sockets
          /\ sockets[cm.socketRef].readyState = "OPEN"

-----------------------------------------------------------------------------
(* C24 *)

\* an unclean close has just found the retry counter at its maximum and set the
\* status to error
Exhausted ==
    /\ cmLast.op = "onclose"
    /\ cmLast.code # 1000
    /\ cmLast.attempt >= maxReconnectAttempts
    /\ cm.status = "error"

-----------------------------------------------------------------------------
(* C25 *)

\* the step hands the negotiator an offer addressed to it while it is disconnected
OfferAccepted ==
    /\ pnLast'.op = "message"
    /\ StartsAccept(pnLast'.n, pnLast'.msg)

\* the step completes an acceptOffer call
AnswerResumed ==
    /\ pnLast'.op = "resume"
    /\ pn[pnLast'.n].pending.kind = "answer"

\* the answer envelope acceptOffer sends for the call that is completing
AnswerEnvelope ==
    [type |-> "signaling",
     content |-> [signalingType |-> "answer", senderId |-> pnLast'.n, senderName |-> "Me",
                  targetId |-> pn[pnLast'.n].pending.peer,
                  sessionId |-> pn[pnLast'.n].pending.session,
                  payload |-> "answer:" \o pnLast'.n]]

\* receiving the offer: status connecting, role responder, the offer's session
\* recorded, the call started for the offer's sender and session, nothing sent yet
OfferStartsResponder ==
    OfferAccepted =>
        /\ pn'[pnLast'.n].status = "connecting"
        /\ pn'[pnLast'.n].isInitiator = FALSE
        /\ pn'[pnLast'.n].sessionId = pnLast'.msg.content.sessionId
        /\ pn'[pnLast'.n].pending.kind = "answer"
        /\ pn'[pnLast'.n].pending.peer = pnLast'.msg.content.senderId
        /\ pn'[pnLast'.n].pending.session = pnLast'.msg.content.sessionId
        /\ pnOut'[pnLast'.n] = <<>>

-----------------------------------------------------------------------------
(* C26 *)

\* the step hands the negotiator an answer that reaches handleAnswer
AnswerReceived ==
    /\ pnLast'.op = "message"
    /\ pnLast'.msg.type = "signaling"
    /\ pnLast'.msg.content.targetId = pnLast'.n
    /\ pnLast'.msg.content.signalingType = "answer"
    /\ ~Falsy(pnLast'.msg.content.senderId)
    /\ pn[pnLast'.n].status = "connecting"

\* the step completes a createOffer or acceptOffer call by sending its envelope
EnvelopeSent == pnLast'.op = "resume" /\ pnLast'.result

\* the status becomes connected only in the data channel's open callback
ConnectedOnlyByChannelOpen ==
    \A n \in LocalIds :
        (pn'[n].status = "connected" /\ pn[n].status # "connected") =>
            (pnLast'.op = "channelOpen" /\ pnLast'.n = n)

\* C26 as stated: the status becomes connected only when the data channel reports
\* itself open; sending an offer, sending an answer and receiving an answer leave the
\* status at connecting
C26_ConnectedOnlyOnOpen ==
    [][/\ ConnectedOnlyByChannelOpen
       /\ (EnvelopeSent /\ pn[pnLast'.n].status = "connecting") =>
             pn'[pnLast'.n].status = "connecting"
       /\ AnswerReceived => pn'[pnLast'.n].status = "connecting"]_vars

\* C26, amended: the status becomes connected only when the data channel reports
\* itself open; sending an offer or an answer leaves the status as it was; receiving
\* an answer leaves it at connecting when the peer connection holds a local offer
\* for it, and sets it to error when the answer is rejected
C26_ConnectedOnlyOnOpenOrError ==
    [][/\ ConnectedOnlyByChannelOpen
       /\ EnvelopeSent => pn'[pnLast'.n].status = pn[pnLast'.n].status
       /\ AnswerReceived =>
             pn'[pnLast'.n].status =
                IF /\ pn[pnLast'.n].pc # NoPc
                   /\ pn[pnLast'.n].pc.signalingState = "have-local-offer"
                THEN "connecting" ELSE "error"]_vars

\* an answer to the local offer has been applied and the status is still connecting
C26_Witness ==
    /\ pnLast.op = "message"
    /\ pnLast.msg.type = "signaling"
    /\ pnLast.msg.content.signalingType = "answer"
    /\ pnLast.msg.content.targetId = pnLast.n
    /\ pn[pnLast.n].status = "connecting"
    /\ pn[pnLast.n].pc.local = "offer:" \o pnLast.n
    /\ pn[pnLast.n].pc.remote = pnLast.msg.content.payload

-----------------------------------------------------------------------------
(* C27 *)

\* C27: a peer-disconnect from the recorded peer and a transport event disconnected,
\* failed or closed leave the status disconnected with no remote peer recorded and
\* the peer connection and the data channel released; hence whenever the status is
\* disconnected, no remote peer is recorded and no peer connection or data channel
\* is held
C27_DisconnectedHoldsNothing ==
    \A n \in LocalIds :
        pn[n].status = "disconnected" =>
            /\ pn[n].peerId = NullId
            /\ pn[n].pc = NoPc
            /\ pn[n].dc = "none"

-----------------------------------------------------------------------------
(* C28 *)

\* the peer-disconnect envelope closeConnection sends to the peer recorded before it
PeerDisconnectEnvelope ==
    [type |-> "signaling",
     content |-> SignalingContent("peer-disconnect", pnLast'.n, pn[pnLast'.n].peerId,
                                  IF Falsy(pn[pnLast'.n].sessionId) THEN ""
                                  ELSE pn[pnLast'.n].sessionId,
                                  "none")]

-----------------------------------------------------------------------------
(* C29 *)

\* C29: sendData returns true, and transmits, only while the negotiator's status is
\* connected; in disconnected, connecting and error it returns false
C29_SendDataOnlyWhenConnected ==
    [][(pnLast'.op = "sendData" /\ pn[pnLast'.n].status # "connected") =>
          ~pnLast'.result]_vars

-----------------------------------------------------------------------------
(* C30 *)

\* the negotiation context can take a candidate: a peer connection is held and its
\* remote description is set
ContextReady(r) == r.pc # NoPc /\ r.pc.remote # Undefined

\* the step hands the listener an ice-candidate envelope addressed to the negotiator
CandidateArrives ==
    /\ pnLast'.op = "message"
    /\ pnLast'.msg.type = "signaling"
    /\ pnLast'.msg.content.signalingType = "ice-candidate"
    /\ pnLast'.msg.content.targetId = pnLast'.n

\* C30: an ice-candidate envelope addressed to the negotiator that arrives before
\* its negotiation context is ready is not discarded: the negotiator keeps it, so
\* its state after the arrival differs from the state in which nothing arrived
C30_EarlyCandidateKept ==
    [][(CandidateArrives /\ ~ContextReady(pn[pnLast'.n])) =>
          pn'[pnLast'.n] # pn[pnLast'.n]]_vars

-----------------------------------------------------------------------------
(* C31 *)

\* the step hands the listener an answer or a peer-disconnect that it acts on
AnswerOrDisconnectArrives ==
    /\ pnLast'.op = "message"
    /\ pnLast'.msg.type = "signaling"
    /\ pnLast'.msg.content.targetId = pnLast'.n
    /\ \/ pnLast'.msg.content.signalingType = "answer"
       \/ /\ pnLast'.msg.content.signalingType = "peer-disconnect"
          /\ pnLast'.msg.content.senderId = pn[pnLast'.n].peerId

\* the step is an event of the transport: of the peer connection or of a data channel
TransportEvent ==
    pnLast'.op \in {"ondatachannel", "channelOpen", "channelClose", "staleChannelClose",
                    "icestate"}

\* C31: after createOffer the status stays connecting over every step that is not
\* the arrival of an answer, a transport event or a closeConnection(); nothing
\* takes the initiator out of connecting on its own
C31_StalledInitiatorStaysConnecting ==
    [][(/\ pn[pnLast'.n].status = "connecting"
        /\ pn[pnLast'.n].isInitiator
        /\ ~AnswerOrDisconnectArrives
        /\ ~TransportEvent
        /\ pnLast'.op # "closeConnection") =>
            pn'[pnLast'.n].status = "connecting"]_vars

\* an initiator whose offer has gone out has just been handed a candidate, and is
\* still connecting
C31_Witness ==
    /\ pnLast.op = "message"
    /\ pnLast.msg.type = "signaling"
    /\ pnLast.msg.content.signalingType = "ice-candidate"
    /\ pnLast.msg.content.targetId = pnLast.n
    /\ pn[pnLast.n].status = "connecting"
    /\ pn[pnLast.n].isInitiator
    /\ pn[pnLast.n].pending.kind = "none"
    /\ pn[pnLast.n].pc.local # Undefined
    /\ pn[pnLast.n].pc.remote = Undefined

-----------------------------------------------------------------------------
(* C32 *)

\* where in the order the relay handled the chats a chat stands
ProcessedAt(tag) == CHOOSE i \in 1..Len(chatLog.processed) : chatLog.processed[i] = tag

-----------------------------------------------------------------------------
(* C33 *)

\* C33: a connection identity is in the member set of a session exactly when it is
\* a registered connection whose session field is that session
C33_MembershipConsistent ==
    \A s \in SessionIds, c \in ConnIds :
       (s \in DOMAIN sessions /\ c \in sessions[s]) <=> c \in CurrentMembers(s)

\* C33, its particular case: no member set holds the identity of a connection that
\* has been deregistered
C33_NoDeregisteredMember ==
    \A s \in DOMAIN sessions : sessions[s] \subseteq Registered

-----------------------------------------------------------------------------
(* C34 *)

\* the session of the connection that caused the step's broadcast: the one it is in
\* after a join, a chat or an identify, the one it was in before a leave or a close
CauseSession ==
    IF last'.op \in {"leave", "close"} THEN clients[last'.c].sessionId
    ELSE clients'[last'.c].sessionId

\* C34: a chat, user_joined, user_left or user_updated event is delivered only to
\* connections whose session field, when it is delivered, is the session of the
\* connection that caused the event
C34_NoCrossSessionLeak ==
    [][last'.op \in {"join", "leave", "close", "chat", "identify"} =>
          \A d \in ConnIds :
             (\E i \in 1..Len(sent'[d]) : sent'[d][i].type \in BroadcastKinds) =>
                /\ d \in DOMAIN clients'
                /\ clients'[d].sessionId = CauseSession]_vars

-----------------------------------------------------------------------------
(* C35 *)

\* C35: the sender identity carried by every signaling envelope the relay delivers
\* is the identity the relay assigned to the connection that submitted it
C35_SenderAuthentic ==
    [][last'.op = "signaling" =>
          \A d \in ConnIds :
             \A i \in 1..Len(sent'[d]) :
                sent'[d][i].type = "signaling" =>
                   Field(sent'[d][i], "senderId") = last'.c]_vars

-----------------------------------------------------------------------------
(* C36 *)

\* socket s was closed by connect() or disconnect() and is no longer the current one
Superseded(s) ==
    /\ s \in DOMAIN sockets
    /\ s # cm.socketRef
    /\ sockets[s].readyState = "CLOSING"
    /\ sockets[s].requested # 0

\* C36: the close or error event of a superseded socket leaves the reference to the
\* current socket and the status as they are and schedules no reconnect timeout
C36_StaleCallbackSafe ==
    [][(cmLast'.op \in {"onclose", "onerror"} /\ Superseded(cmLast'.socket)) =>
          /\ cm'.socketRef = cm.socketRef
          /\ cm'.status = cm.status
          /\ timers' = timers]_vars

-----------------------------------------------------------------------------
(* C37 *)

\* C37, the counter's range: the retry counter lies between 0 and
\* maxReconnectAttempts
C37_CounterInRange ==
    cm.reconnectAttempt >= 0 /\ cm.reconnectAttempt <= maxReconnectAttempts

\* C37, the timers: at most one reconnect timeout is pending
C37_OneTimer == Cardinality(timers) <= 1

\* C37, the reset: the retry counter is 0 whenever the status is connected
C37_ZeroWhenConnected == cm.status = "connected" => cm.reconnectAttempt = 0

\* C37: the retry counter lies between 0 and maxReconnectAttempts, at most one
\* reconnect timeout is pending, and the counter is 0 whenever the status is connected
C37_RetryCounterInvariant ==
    /\ C37_CounterInRange
    /\ C37_OneTimer
    /\ C37_ZeroWhenConnected

-----------------------------------------------------------------------------
(* C38 *)

\* the step hands the listener an offer addressed to the negotiator
OfferArrives ==
    /\ pnLast'.op = "message"
    /\ pnLast'.msg.type = "signaling"
    /\ pnLast'.msg.content.signalingType = "offer"
    /\ pnLast'.msg.content.targetId = pnLast'.n

\* both negotiators hold the initiator's role
BothInitiators == \A n \in LocalIds : pn[n].isInitiator

\* an offer that arrives while the status is connecting or connected changes
\* nothing and is not answered
OfferIgnoredWhenBusy ==
    (OfferArrives /\ pn[pnLast'.n].status \in {"connecting", "connected"}) =>
        /\ pn'[pnLast'.n] = pn[pnLast'.n]
        /\ pnOut'[pnLast'.n] = <<>>

\* C38: an offer received while the status is connecting or connected is ignored:
\* status, role and recorded peer are unchanged and no answer is sent; and when both
\* negotiators have called createOffer for each other, neither is connected
C38_OfferIgnoredWhileBusy ==
    /\ [][OfferIgnoredWhenBusy]_vars
    /\ [](BothInitiators => \A n \in LocalIds : pn[n].status # "connected")

\* both negotiators have sent their offer and each has been handed the other's:
\* both are still connecting initiators with the target they chose
C38_Witness ==
    /\ BothInitiators
    /\ \A n \in LocalIds :
          /\ pn[n].status = "connecting"
          /\ pn[n].pending.kind = "none"
          /\ pn[n].peerId \in LocalIds \ {n}
          /\ inbox[n] = <<>>
    /\ pnLast.op = "message"
    /\ pnLast.msg.type = "signaling"
    /\ pnLast.msg.content.signalingType = "offer"
    /\ pnLast.msg.content.senderId \in LocalIds

-----------------------------------------------------------------------------
(* C39 *)

\* C39: whenever the status is connected a remote peer is recorded
C39_ConnectedHasPeer ==
    \A n \in LocalIds : pn[n].status = "connected" => ~Falsy(pn[n].peerId)

-----------------------------------------------------------------------------
(* C40 *)

\* the peer-disconnect envelopes among what a step transmitted
PeerDisconnects(out) ==
    SelectSeq(out, LAMBDA e : e.content.signalingType = "peer-disconnect")

\* the step is a closeConnection() call or hands the listener a peer-disconnect
CloseOrDisconnectArrives ==
    \/ pnLast'.op = "closeConnection"
    \/ /\ pnLast'.op = "message"
       /\ pnLast'.msg.type = "signaling"
       /\ pnLast'.msg.content.signalingType = "peer-disconnect"

\* a negotiator transmits at most one peer-disconnect in a step, only in a
\* closeConnection() call or on being handed a peer-disconnect, only while it has a
\* peer recorded, and it has none afterwards; once it has none it records none again
OneDisconnectEach ==
    \A n \in LocalIds :
       /\ Len(PeerDisconnects(pnOut'[n])) <= 1
       /\ Len(PeerDisconnects(pnOut'[n])) = 1 =>
             /\ pnLast'.n = n
             /\ CloseOrDisconnectArrives
             /\ ~Falsy(pn[n].peerId)
             /\ Falsy(pn'[n].peerId)
       /\ Falsy(pn[n].peerId) => Falsy(pn'[n].peerId)

AllDisconnected == \A n \in LocalIds : pn[n].status = "disconnected"

\* C40: from two negotiators linked to each other, a closeConnection() call or a
\* received peer-disconnect makes a negotiator transmit at most one peer-disconnect,
\* no negotiator transmits a second one, and after a closeConnection() call both
\* negotiators end in disconnected
C40_DisconnectTerminates ==
    /\ [][OneDisconnectEach]_vars
    /\ (pnLast.op = "closeConnection") ~> [](AllDisconnected)

\* the negotiator that closed first has been handed the peer-disconnect its peer
\* sent on closing in turn, and has ignored it: both are disconnected, nothing is in
\* flight
C40_Witness ==
    /\ pnLast.op = "message"
    /\ pnLast.msg.type = "signaling"
    /\ pnLast.msg.content.signalingType = "peer-disconnect"
    /\ pnLast.msg.content.targetId = pnLast.n
    /\ AllDisconnected
    /\ \A n \in LocalIds : inbox[n] = <<>> /\ pn[n].pc = NoPc /\ pnOut[n] = <<>>

====
